---- MODULE Spec2Model ----
(***************************************************************************)
(* Talent-acquisition system: the relational store (users, jobs, cv_files, *)
(* ai_parsed_data, applications, interviews, notifications, reports) and   *)
(* the RPC handlers that read and write it.  A table is a sequence of      *)
(* rows; the serial primary key of a row is its position, also kept in the *)
(* field id.  Free-text columns that a handler only copies from its input  *)
(* to the row (title, description, file_name, message, ...) are left out   *)
(* of the rows.                                                            *)
(*                                                                         *)
(* A handler awaits the store at every statement, and other requests run   *)
(* while it waits: a handler of several statements is one action per       *)
(* statement.  The action of a statement also runs the code that follows   *)
(* it up to the next await (the checks on what it returned, the clock      *)
(* read, the values built for the next statement).  The first action of a  *)
(* handler takes the input; where the code reads the clock before its      *)
(* first statement, the first action is that read.                         *)
(***************************************************************************)
EXTENDS Integers, Sequences, FiniteSets, TLC

VARIABLES users, jobs, cv_files, ai_parsed_data, applications, interviews,
          notifications, reports, now, last, jobTargets, calls, returned, result

\* the store; now is the wall clock; calls holds the requests in progress;
\* last records the request that ended last, and its outcome; result is what
\* the last query returned; jobTargets and returned record what the calls on
\* a job and on a CV file have done
tables == <<users, jobs, cv_files, ai_parsed_data, applications, interviews,
            notifications, reports>>
vars == <<users, jobs, cv_files, ai_parsed_data, applications, interviews,
          notifications, reports, now, last, jobTargets, calls, returned, result>>

(***************************************************************************)
(* Bounds of the model.  The handlers have none: a specification bounds    *)
(* the rows its requests may add.                                          *)
(***************************************************************************)
\* rows of a table in the specifications that create two of each
MaxRows == 2
\* rows of a table in the specifications of one workflow
MaxJobs == 1
MaxCVFiles == 1
MaxApplications == 1
MaxInterviews == 1
MaxNotifications == 4
MaxTime == 1
MaxUserId == 2
MaxProcs == 2
\* rows that MaxProcs calls served together can add for MaxCVFiles CV files
MaxParsedData == 2
\* notifications created where they are listed
MaxInbox == 2
\* applications with a match score in the store of a listing
MaxScored == 3
MaxReports == 2
\* rows a table holds where a specification creates one row of each table
MaxCreated == 1

(***************************************************************************)
(* Values.  SQL NULL in an integer or timestamp column is NULL; in a text  *)
(* column it is NULLTEXT; a property absent from an input object           *)
(* (JavaScript undefined) is UNDEFINED.                                    *)
(***************************************************************************)
NULL == -1
NULLTEXT == "<null>"
UNDEFINED == "<undefined>"

UserRole == {"candidate", "requester", "admin"}
JobStatus == {"draft", "pending_approval", "approved", "published", "closed"}
ApplicationStatus == {"pending", "ai_processing", "shortlisted", "rejected",
                      "interview_scheduled", "interviewed", "offer_made",
                      "offer_accepted", "offer_rejected", "hired"}
InterviewStatus == {"scheduled", "completed", "cancelled", "rescheduled"}
NotificationType == {"application_status", "interview_invitation",
                     "job_approval", "weekly_report"}
ProcessingStatus == {"pending", "processing", "completed", "failed"}

\* ids a caller can put in an input: the schemas accept any number, so 0 and
\* an id beyond the last row a table can hold are inputs too
UserIdInputs == 0..MaxUserId
JobIdInputs == 0..(MaxJobs + 1)
CVFileIdInputs == 0..(MaxCVFiles + 1)
ApplicationIdInputs == 0..(MaxApplications + 1)
InterviewIdInputs == 0..(MaxInterviews + 1)
NotificationIdInputs == 0..(MaxNotifications + 1)
\* text a caller can put in a nullable text field (z.string().nullable())
TextInputs == {"a", NULLTEXT}
\* ... and in a nullable, optional one (z.string().nullable().optional()),
\* or in a nullable one of an object that is handed over unparsed
OptionalTextInputs == TextInputs \cup {UNDEFINED}
TimeInputs == 0..MaxTime
\* where an interview takes place: on site, or by a meeting link
LocationInputs == {NULLTEXT}
MeetingLinkInputs == {"a"}
\* the minutes an interview lasts
DurationInputs == {60}

Ids(table) == 1..Len(table)
Exists(table, id) == id \in Ids(table)

\* db.update(table).set(fields).where(eq(table.id, id)): the rows other than
\* id are left alone, the columns not in fields keep their value
SetRow(table, id, fields) ==
    [table EXCEPT ![id] = [c \in DOMAIN @ |->
                              IF c \in DOMAIN fields THEN fields[c] ELSE @[c]]]

\* an object with one more property
With(object, name, value) ==
    [c \in DOMAIN object \cup {name} |-> IF c = name THEN value ELSE object[c]]

(***************************************************************************)
(* A handler call: its name, the ids, status and notes of its input where  *)
(* it has them, and its outcome (the error thrown, or the id of the row    *)
(* returned).                                                              *)
(***************************************************************************)
NoCall == [op |-> "none", id |-> NULL, id2 |-> NULL, id3 |-> NULL,
           status |-> UNDEFINED, notes |-> UNDEFINED,
           err |-> "none", ret |-> NULL]

Call(op, fields) ==
    [c \in DOMAIN NoCall |->
        IF c = "op" THEN op ELSE IF c \in DOMAIN fields THEN fields[c] ELSE NoCall[c]]

Ok(c) == c.op # "none" /\ c.err = "none"
Failed(c) == c.err # "none"

(***************************************************************************)
(* Requests in progress.  The server answers every request in its own      *)
(* asynchronous call; a call that awaits holds the statement it waits on   *)
(* (pc), its input (in, and in x what in has no field for) and the locals  *)
(* of the handler: the values it has built or the figures it has read      *)
(* (vals), the id of a row (row) and a clock reading (at).                 *)
(***************************************************************************)
Procs == 1..MaxProcs
NoVals == [c \in {} |-> NULL]
IdleCall == [pc |-> "idle", in |-> NoCall, x |-> NoVals, vals |-> NoVals,
             row |-> NULL, at |-> NULL]

\* no request is in progress
Quiet == \A p \in Procs : calls[p].pc = "idle"

\* the call throws: the request ends with an error
Throw(p, in, err) ==
    /\ calls' = [calls EXCEPT ![p] = IdleCall]
    /\ last' = [in EXCEPT !.err = err]

\* the call returns the row with id ret (or true, 1)
Return(p, in, ret) ==
    /\ calls' = [calls EXCEPT ![p] = IdleCall]
    /\ last' = [in EXCEPT !.ret = ret]

\* the call returns what a query has read
ReturnResult(p, in, r) ==
    /\ calls' = [calls EXCEPT ![p] = IdleCall]
    /\ last' = in
    /\ result' = r

(***************************************************************************)
(* Users.  createUser's implementation is not part of the sources (they    *)
(* hold its declaration and its tests); it is the insert into users that   *)
(* the specification describes, refused by the unique constraint on email. *)
(* SeedUsers are the users a store holds after two such calls.             *)
(***************************************************************************)
SeedUsers == << [id |-> 1, email |-> "c@x", role |-> "candidate"],
                [id |-> 2, email |-> "r@x", role |-> "requester"] >>

\* e-mail addresses a caller can put in an input
EmailInputs == {"c@x", "r@x"}

\* (mutant) the e-mail address is not compared with those stored
createUser_Duplicates(email, role) ==
    LET c == Call("createUser", [status |-> role, notes |-> email])
    IN /\ users' = Append(users, [id |-> Len(users) + 1, email |-> email, role |-> role])
       /\ last' = [c EXCEPT !.ret = Len(users) + 1]
       /\ UNCHANGED <<jobs, cv_files, ai_parsed_data, applications, interviews,
                      notifications, reports, now, jobTargets, calls, returned, result>>

\* createUser, one statement: the insert violates users_email_unique when a
\* row holds the e-mail address already, and then adds no row (the number a
\* refused insert takes from the serial sequence is not modelled: ids are
\* the positions)
createUser(email, role) ==
    LET c == Call("createUser", [status |-> role, notes |-> email])
    IN IF \E u \in Ids(users) : users[u].email = email
       THEN /\ last' = [c EXCEPT !.err = "unique_violation"]
            /\ UNCHANGED <<users, jobs, cv_files, ai_parsed_data, applications, interviews,
                           notifications, reports, now, jobTargets, calls, returned, result>>
       ELSE /\ users' = Append(users, [id |-> Len(users) + 1, email |-> email, role |-> role])
            /\ last' = [c EXCEPT !.ret = Len(users) + 1]
            /\ UNCHANGED <<jobs, cv_files, ai_parsed_data, applications, interviews,
                           notifications, reports, now, jobTargets, calls, returned, result>>

(***************************************************************************)
(* Jobs                                                                    *)
(***************************************************************************)
\* (mutant) the creator is recorded as the approver
createJob_Approved(created_by) ==
    /\ jobs' = Append(jobs, [id |-> Len(jobs) + 1, status |-> "draft",
                             created_by |-> created_by, approved_by |-> created_by,
                             created_at |-> now, updated_at |-> now,
                             published_at |-> NULL, closed_at |-> NULL])
    /\ jobTargets' = Append(jobTargets, {})
    /\ last' = Call("createJob", [id2 |-> created_by, ret |-> Len(jobs) + 1])
    /\ UNCHANGED <<users, reports, result, cv_files, ai_parsed_data, applications, interviews,
                   notifications, now, calls, returned>>

\* (mutant) the row returned carries the id 0 of the handler's first draft
createJob_PlaceholderId(created_by) ==
    /\ jobs' = Append(jobs, [id |-> 0, status |-> "draft",
                             created_by |-> created_by, approved_by |-> NULL,
                             created_at |-> now, updated_at |-> now,
                             published_at |-> NULL, closed_at |-> NULL])
    /\ jobTargets' = Append(jobTargets, {})
    /\ last' = Call("createJob", [id2 |-> created_by, ret |-> 0])
    /\ UNCHANGED <<users, reports, result, cv_files, ai_parsed_data, applications, interviews,
                   notifications, now, calls, returned>>

\* createJob, one statement: inserts unconditionally (created_by is not
\* looked up); created_at and updated_at are the column defaults now()
createJob(created_by) ==
    /\ jobs' = Append(jobs, [id |-> Len(jobs) + 1, status |-> "draft",
                             created_by |-> created_by, approved_by |-> NULL,
                             created_at |-> now, updated_at |-> now,
                             published_at |-> NULL, closed_at |-> NULL])
    /\ jobTargets' = Append(jobTargets, {})
    /\ last' = Call("createJob", [id2 |-> created_by, ret |-> Len(jobs) + 1])
    /\ UNCHANGED <<users, reports, result, cv_files, ai_parsed_data, applications, interviews,
                   notifications, now, calls, returned>>

\* the targets updateJobStatus derives a timestamp from
TimestampedTargets == {"published", "closed"}

\* JavaScript truthiness of a number | null: null and 0 are falsy
Truthy(n) == n # NULL /\ n # 0

\* (mutant) a target of "closed" stamps published_at as well
JobUpdateValues_StampsBoth(status, approved_by) ==
    [c \in {"status", "updated_at"}
          \cup (IF status = "approved" /\ Truthy(approved_by) THEN {"approved_by"} ELSE {})
          \cup (IF status \in {"published", "closed"} THEN {"published_at"} ELSE {})
          \cup (IF status = "closed" THEN {"closed_at"} ELSE {})
       |-> CASE c = "status" -> status
             [] c = "approved_by" -> approved_by
             [] OTHER -> now]

\* (mutant) a job that was published cannot be sent back to draft
JobUpdateValues_NoReject(status, approved_by) ==
    [c \in (IF status = "draft" THEN {} ELSE {"status"}) \cup {"updated_at"}
          \cup (IF status = "approved" /\ Truthy(approved_by) THEN {"approved_by"} ELSE {})
          \cup (IF status = "published" THEN {"published_at"} ELSE {})
          \cup (IF status = "closed" THEN {"closed_at"} ELSE {})
       |-> CASE c = "status" -> status
             [] c = "approved_by" -> approved_by
             [] OTHER -> now]

\* (mutant) a target other than "approved" withdraws the approval
JobUpdateValues_ClearsApprover(status, approved_by) ==
    [c \in {"status", "updated_at"}
          \cup (IF status # "approved" \/ Truthy(approved_by) THEN {"approved_by"} ELSE {})
          \cup (IF status = "published" THEN {"published_at"} ELSE {})
          \cup (IF status = "closed" THEN {"closed_at"} ELSE {})
       |-> CASE c = "status" -> status
             [] c = "approved_by" -> (IF status = "approved" THEN approved_by ELSE NULL)
             [] OTHER -> now]

\* the updateValues object built from the input, with the clock as it is
\* when the lookup has answered
JobUpdateValues(status, approved_by) ==
    [c \in {"status", "updated_at"}
          \cup (IF status = "approved" /\ Truthy(approved_by) THEN {"approved_by"} ELSE {})
          \cup (IF status = "published" THEN {"published_at"} ELSE {})
          \cup (IF status = "closed" THEN {"closed_at"} ELSE {})
       |-> CASE c = "status" -> status
             [] c = "approved_by" -> approved_by
             [] OTHER -> now]

\* updateJobStatus, first statement: the lookup of the job; a job found,
\* updateValues is built
updateJobStatus_Select(p, job_id, status, approved_by) ==
    LET in == Call("updateJobStatus",
                   [id |-> job_id, status |-> status, id2 |-> approved_by])
    IN /\ calls[p].pc = "idle"
       /\ IF ~Exists(jobs, job_id)
          THEN Throw(p, in, "not_found")
          ELSE /\ calls' = [calls EXCEPT ![p] =
                              [IdleCall EXCEPT !.pc = "updateJobStatus:update", !.in = in,
                                               !.vals = JobUpdateValues(status, approved_by)]]
               /\ UNCHANGED last
       /\ UNCHANGED <<users, jobs, cv_files, ai_parsed_data, applications, interviews,
                      notifications, reports, now, jobTargets, returned, result>>

\* updateJobStatus, second statement: the update, which returns the row
updateJobStatus_Update(p) ==
    LET in == calls[p].in
    IN /\ calls[p].pc = "updateJobStatus:update"
       /\ jobs' = SetRow(jobs, in.id, calls[p].vals)
       /\ jobTargets' = [jobTargets EXCEPT ![in.id] = @ \cup ({in.status} \cap TimestampedTargets)]
       /\ Return(p, in, in.id)
       /\ UNCHANGED <<users, cv_files, ai_parsed_data, applications, interviews,
                      notifications, reports, now, returned, result>>

(***************************************************************************)
(* CV files and applications                                               *)
(***************************************************************************)
\* (mutant) the role of the user is not looked at
uploadCV_Select_AnyRole(p, candidate_id) ==
    LET in == Call("uploadCV", [id |-> candidate_id])
    IN /\ calls[p].pc = "idle"
       /\ IF ~Exists(users, candidate_id)
          THEN Throw(p, in, "not_found:candidate")
          ELSE /\ calls' = [calls EXCEPT ![p] =
                              [IdleCall EXCEPT !.pc = "uploadCV:insert", !.in = in]]
               /\ UNCHANGED last
       /\ UNCHANGED <<users, jobs, cv_files, ai_parsed_data, applications, interviews,
                      notifications, reports, now, jobTargets, returned, result>>

\* uploadCV, first statement: the lookup of the candidate, and the check of
\* the role of the user found
uploadCV_Select(p, candidate_id) ==
    LET in == Call("uploadCV", [id |-> candidate_id])
    IN /\ calls[p].pc = "idle"
       /\ IF ~Exists(users, candidate_id)
          THEN Throw(p, in, "not_found:candidate")
          ELSE IF users[candidate_id].role # "candidate"
          THEN Throw(p, in, "not_a_candidate")
          ELSE /\ calls' = [calls EXCEPT ![p] =
                              [IdleCall EXCEPT !.pc = "uploadCV:insert", !.in = in]]
               /\ UNCHANGED last
       /\ UNCHANGED <<users, jobs, cv_files, ai_parsed_data, applications, interviews,
                      notifications, reports, now, jobTargets, returned, result>>

\* uploadCV, second statement: the insert; uploaded_at is the column default
uploadCV_Insert(p) ==
    LET in == calls[p].in
    IN /\ calls[p].pc = "uploadCV:insert"
       /\ cv_files' = Append(cv_files, [id |-> Len(cv_files) + 1,
                                        candidate_id |-> in.id,
                                        uploaded_at |-> now])
       /\ Return(p, in, Len(cv_files) + 1)
       /\ UNCHANGED <<users, jobs, ai_parsed_data, applications, interviews,
                      notifications, reports, now, jobTargets, returned, result>>

\* createApplication, first statement: the lookup of the job
createApplication_SelectJob(p, job_id, candidate_id, cv_file_id, cover_letter) ==
    LET in == Call("createApplication", [id |-> job_id, id2 |-> candidate_id,
                                         id3 |-> cv_file_id, notes |-> cover_letter])
    IN /\ calls[p].pc = "idle"
       /\ IF ~Exists(jobs, job_id)
          THEN Throw(p, in, "not_found:job")
          ELSE /\ calls' = [calls EXCEPT ![p] =
                              [IdleCall EXCEPT !.pc = "createApplication:candidate", !.in = in]]
               /\ UNCHANGED last
       /\ UNCHANGED <<users, jobs, cv_files, ai_parsed_data, applications, interviews,
                      notifications, reports, now, jobTargets, returned, result>>

\* createApplication, second statement: the lookup of the candidate
createApplication_SelectCandidate(p) ==
    LET in == calls[p].in
    IN /\ calls[p].pc = "createApplication:candidate"
       /\ IF ~Exists(users, in.id2)
          THEN Throw(p, in, "not_found:candidate")
          ELSE /\ calls' = [calls EXCEPT ![p].pc = "createApplication:cv_file"]
               /\ UNCHANGED last
       /\ UNCHANGED <<users, jobs, cv_files, ai_parsed_data, applications, interviews,
                      notifications, reports, now, jobTargets, returned, result>>

\* (mutant) the owner of the CV file is not compared with the candidate
CVFileError_NoOwnerCheck(cv_file_id, candidate_id) ==
    IF ~Exists(cv_files, cv_file_id) THEN "not_found:cv_file"
    ELSE "none"

\* the checks on what the lookup of the CV file returned
CVFileError(cv_file_id, candidate_id) ==
    IF ~Exists(cv_files, cv_file_id) THEN "not_found:cv_file"
    ELSE IF cv_files[cv_file_id].candidate_id # candidate_id THEN "cv_file_mismatch"
    ELSE "none"

\* createApplication, third statement: the lookup of the CV file
createApplication_SelectCVFile(p) ==
    LET in == calls[p].in
        e == CVFileError(in.id3, in.id2)
    IN /\ calls[p].pc = "createApplication:cv_file"
       /\ IF e # "none"
          THEN Throw(p, in, e)
          ELSE /\ calls' = [calls EXCEPT ![p].pc = "createApplication:insert"]
               /\ UNCHANGED last
       /\ UNCHANGED <<users, jobs, cv_files, ai_parsed_data, applications, interviews,
                      notifications, reports, now, jobTargets, returned, result>>

\* createApplication, fourth statement: the insert; created_at and
\* updated_at are the column defaults
createApplication_Insert(p) ==
    LET in == calls[p].in
    IN /\ calls[p].pc = "createApplication:insert"
       /\ applications' = Append(applications,
             [id |-> Len(applications) + 1, job_id |-> in.id,
              candidate_id |-> in.id2, cv_file_id |-> in.id3,
              ai_parsed_data_id |-> NULL, status |-> "pending",
              ai_match_score |-> NULL, cover_letter |-> in.notes,
              notes |-> NULLTEXT, created_at |-> now, updated_at |-> now])
       /\ Return(p, in, Len(applications) + 1)
       /\ UNCHANGED <<users, jobs, cv_files, ai_parsed_data, interviews,
                      notifications, reports, now, jobTargets, returned, result>>

\* (mutant) notes left out of the input clear the column
ApplicationUpdateData_ClearsNotes(status, notes) ==
    [c \in {"status", "updated_at", "notes"}
       |-> CASE c = "status" -> status
             [] c = "notes" -> (IF notes = UNDEFINED THEN NULLTEXT ELSE notes)
             [] OTHER -> now]

\* the updateData object built from the input, with the clock as it is when
\* the lookup has answered
ApplicationUpdateData(status, notes) ==
    [c \in {"status", "updated_at"}
          \cup (IF notes # UNDEFINED THEN {"notes"} ELSE {})
       |-> CASE c = "status" -> status
             [] c = "notes" -> notes
             [] OTHER -> now]

\* updateApplicationStatus, first statement: the lookup of the application;
\* an application found, updateData is built
updateApplicationStatus_Select(p, application_id, status, notes) ==
    LET in == Call("updateApplicationStatus",
                   [id |-> application_id, status |-> status, notes |-> notes])
    IN /\ calls[p].pc = "idle"
       /\ IF ~Exists(applications, application_id)
          THEN Throw(p, in, "not_found:application")
          ELSE /\ calls' = [calls EXCEPT ![p] =
                              [IdleCall EXCEPT !.pc = "updateApplicationStatus:update", !.in = in,
                                               !.vals = ApplicationUpdateData(status, notes)]]
               /\ UNCHANGED last
       /\ UNCHANGED <<users, jobs, cv_files, ai_parsed_data, applications, interviews,
                      notifications, reports, now, jobTargets, returned, result>>

\* updateApplicationStatus, second statement: the update, which returns the row
updateApplicationStatus_Update(p) ==
    LET in == calls[p].in
    IN /\ calls[p].pc = "updateApplicationStatus:update"
       /\ applications' = SetRow(applications, in.id, calls[p].vals)
       /\ Return(p, in, in.id)
       /\ UNCHANGED <<users, jobs, cv_files, ai_parsed_data, interviews,
                      notifications, reports, now, jobTargets, returned, result>>

\* updateApplicationStatusInputSchema: application_id is a number, status one
\* of the application statuses, and notes a string or null; notes is not
\* optional, so an input without it does not parse
updateApplicationStatusInputSchema(application_id, status, notes) ==
    /\ application_id \in Int
    /\ status \in ApplicationStatus
    /\ notes # UNDEFINED

\* the router's updateApplicationStatus procedure: the input is parsed with
\* the schema; an input that does not parse is refused and the handler is
\* not called, an input that parses is handed to the handler
updateApplicationStatus_Request(p, application_id, status, notes) ==
    IF updateApplicationStatusInputSchema(application_id, status, notes)
    THEN updateApplicationStatus_Select(p, application_id, status, notes)
    ELSE /\ calls[p].pc = "idle"
         /\ Throw(p, Call("updateApplicationStatus",
                          [id |-> application_id, status |-> status, notes |-> notes]),
                  "bad_request")
         /\ UNCHANGED <<users, jobs, cv_files, ai_parsed_data, applications, interviews,
                        notifications, reports, now, jobTargets, returned, result>>

(***************************************************************************)
(* Interviews                                                              *)
(***************************************************************************)
\* (mutant) a notification is inserted as already e-mailed
NotificationRow_Sent(id, user_id, type, title) ==
    [id |-> id, user_id |-> user_id, type |-> type, title |-> title,
     email_sent |-> TRUE, read_at |-> NULL, created_at |-> now]

\* the row a notifications insert adds: email_sent and read_at take their
\* column defaults, created_at is now()
NotificationRow(id, user_id, type, title) ==
    [id |-> id, user_id |-> user_id, type |-> type, title |-> title,
     email_sent |-> FALSE, read_at |-> NULL, created_at |-> now]

\* (mutant) the interviewer is not looked up
ScheduleInterviewError_NoInterviewerCheck(application_id, interviewer_id) ==
    IF ~Exists(applications, application_id) THEN "not_found:application"
    ELSE "none"

\* the lookups scheduleInterview makes before it writes
ScheduleInterviewError(application_id, interviewer_id) ==
    IF ~Exists(applications, application_id) THEN "not_found:application"
    ELSE IF ~Exists(users, interviewer_id) THEN "not_found:interviewer"
    ELSE "none"

\* (mutant) the application keeps its status when an interview is scheduled
scheduleInterview_KeepsStatus(application_id, interviewer_id, scheduled_at, duration_minutes, location, meeting_link) ==
    LET c == Call("scheduleInterview", [id |-> application_id, id2 |-> interviewer_id])
        e == ScheduleInterviewError(application_id, interviewer_id)
        n == Len(notifications)
    IN IF e # "none"
       THEN /\ last' = [c EXCEPT !.err = e]
            /\ UNCHANGED <<users, reports, result, jobs, cv_files, ai_parsed_data, applications,
                           interviews, notifications, now, jobTargets, calls, returned>>
       ELSE /\ interviews' = Append(interviews,
                  [id |-> Len(interviews) + 1, application_id |-> application_id,
                   interviewer_id |-> interviewer_id, scheduled_at |-> scheduled_at,
                   duration_minutes |-> duration_minutes,
                   location |-> location, meeting_link |-> meeting_link,
                   status |-> "scheduled", notes |-> NULLTEXT, feedback |-> NULLTEXT,
                   created_at |-> now, updated_at |-> now])
            /\ applications' = applications
            /\ notifications' = notifications \o
                  << NotificationRow(n + 1, applications[application_id].candidate_id,
                                     "interview_invitation", "Interview Scheduled"),
                     NotificationRow(n + 2, interviewer_id,
                                     "interview_invitation", "Interview Assignment") >>
            /\ last' = [c EXCEPT !.ret = Len(interviews) + 1]
            /\ UNCHANGED <<users, reports, result, jobs, cv_files, ai_parsed_data, now, jobTargets, calls, returned>>

\* scheduleInterview, one transaction: the interview row, the application's
\* status, and a notification each for the candidate and the interviewer
scheduleInterview(application_id, interviewer_id, scheduled_at, duration_minutes, location, meeting_link) ==
    LET c == Call("scheduleInterview", [id |-> application_id, id2 |-> interviewer_id])
        e == ScheduleInterviewError(application_id, interviewer_id)
        n == Len(notifications)
    IN IF e # "none"
       THEN /\ last' = [c EXCEPT !.err = e]
            /\ UNCHANGED <<users, reports, result, jobs, cv_files, ai_parsed_data, applications,
                           interviews, notifications, now, jobTargets, calls, returned>>
       ELSE /\ interviews' = Append(interviews,
                  [id |-> Len(interviews) + 1, application_id |-> application_id,
                   interviewer_id |-> interviewer_id, scheduled_at |-> scheduled_at,
                   duration_minutes |-> duration_minutes,
                   location |-> location, meeting_link |-> meeting_link,
                   status |-> "scheduled", notes |-> NULLTEXT, feedback |-> NULLTEXT,
                   created_at |-> now, updated_at |-> now])
            /\ applications' = SetRow(applications, application_id,
                  [status |-> "interview_scheduled", updated_at |-> now])
            /\ notifications' = notifications \o
                  << NotificationRow(n + 1, applications[application_id].candidate_id,
                                     "interview_invitation", "Interview Scheduled"),
                     NotificationRow(n + 2, interviewer_id,
                                     "interview_invitation", "Interview Assignment") >>
            /\ last' = [c EXCEPT !.ret = Len(interviews) + 1]
            /\ UNCHANGED <<users, reports, result, jobs, cv_files, ai_parsed_data, now, jobTargets, calls, returned>>

\* (mutant) feedback left out of the input clears the column
InterviewUpdateData_ClearsFeedback(status, notes, feedback) ==
    [c \in {"updated_at", "feedback"}
          \cup (IF status # UNDEFINED THEN {"status"} ELSE {})
          \cup (IF notes # UNDEFINED THEN {"notes"} ELSE {})
       |-> CASE c = "status" -> status
             [] c = "notes" -> notes
             [] c = "feedback" -> (IF feedback = UNDEFINED THEN NULLTEXT ELSE feedback)
             [] OTHER -> now]

\* the updateData object built from the input, with the clock as it is when
\* the call starts
InterviewUpdateData(status, notes, feedback) ==
    [c \in {"updated_at"}
          \cup (IF status # UNDEFINED THEN {"status"} ELSE {})
          \cup (IF notes # UNDEFINED THEN {"notes"} ELSE {})
          \cup (IF feedback # UNDEFINED THEN {"feedback"} ELSE {})
       |-> CASE c = "status" -> status
             [] c = "notes" -> notes
             [] c = "feedback" -> feedback
             [] OTHER -> now]

\* updateInterview starts: updateData is built before the first statement
updateInterview_Start(p, interview_id, status, notes, feedback) ==
    /\ calls[p].pc = "idle"
    /\ calls' = [calls EXCEPT ![p] =
                    [IdleCall EXCEPT !.pc = "updateInterview:update",
                                     !.in = Call("updateInterview",
                                                 [id |-> interview_id, status |-> status,
                                                  notes |-> notes]),
                                     !.x = [feedback |-> feedback],
                                     !.vals = InterviewUpdateData(status, notes, feedback)]]
    /\ UNCHANGED <<users, jobs, cv_files, ai_parsed_data, applications, interviews,
                   notifications, reports, now, last, jobTargets, returned, result>>

\* (mutant) every status given cascades to the application
CascadesToApplication_AnyStatus(status) == status # UNDEFINED

\* the status that makes updateInterview update the application
CascadesToApplication(status) == status = "completed"

\* updateInterview, first statement: the update of the interview, which
\* returns the rows it has changed; a row returned and the status
\* "completed", the values of the second update are built
updateInterview_Update(p) ==
    LET in == calls[p].in
    IN /\ calls[p].pc = "updateInterview:update"
       /\ IF ~Exists(interviews, in.id)
          THEN /\ Throw(p, in, "not_found:interview")
               /\ UNCHANGED interviews
          ELSE /\ interviews' = SetRow(interviews, in.id, calls[p].vals)
               /\ IF CascadesToApplication(in.status)
                  THEN /\ calls' = [calls EXCEPT ![p] =
                                      [@ EXCEPT !.pc = "updateInterview:cascade",
                                                !.vals = [status |-> "interviewed",
                                                          updated_at |-> now],
                                                !.row = interviews[in.id].application_id]]
                       /\ UNCHANGED last
                  ELSE Return(p, in, in.id)
       /\ UNCHANGED <<users, jobs, cv_files, ai_parsed_data, applications,
                      notifications, reports, now, jobTargets, returned, result>>

\* updateInterview, second statement: the update of the application.  An
\* UPDATE whose WHERE matches no row changes nothing.
updateInterview_Cascade(p) ==
    LET in == calls[p].in
    IN /\ calls[p].pc = "updateInterview:cascade"
       /\ applications' = IF Exists(applications, calls[p].row)
                          THEN SetRow(applications, calls[p].row, calls[p].vals)
                          ELSE applications
       /\ Return(p, in, in.id)
       /\ UNCHANGED <<users, jobs, cv_files, ai_parsed_data, interviews,
                      notifications, reports, now, jobTargets, returned, result>>

(***************************************************************************)
(* Notifications                                                           *)
(***************************************************************************)
\* createNotification, first statement: the lookup of the user
createNotification_Select(p, user_id, type, title) ==
    LET in == Call("createNotification", [id |-> user_id, status |-> type])
    IN /\ calls[p].pc = "idle"
       /\ IF ~Exists(users, user_id)
          THEN Throw(p, in, "not_found:user")
          ELSE /\ calls' = [calls EXCEPT ![p] =
                              [IdleCall EXCEPT !.pc = "createNotification:insert", !.in = in,
                                               !.x = [title |-> title]]]
               /\ UNCHANGED last
       /\ UNCHANGED <<users, jobs, cv_files, ai_parsed_data, applications, interviews,
                      notifications, reports, now, jobTargets, returned, result>>

\* createNotification, second statement: the insert
createNotification_Insert(p) ==
    LET in == calls[p].in
    IN /\ calls[p].pc = "createNotification:insert"
       /\ notifications' = Append(notifications,
             NotificationRow(Len(notifications) + 1, in.id, in.status, calls[p].x.title))
       /\ Return(p, in, Len(notifications) + 1)
       /\ UNCHANGED <<users, jobs, cv_files, ai_parsed_data, applications, interviews,
                      reports, now, jobTargets, returned, result>>

\* markNotificationAsRead starts: read_at is the clock as it is when the
\* statement is built
markNotificationAsRead_Start(p, notificationId) ==
    /\ calls[p].pc = "idle"
    /\ calls' = [calls EXCEPT ![p] =
                    [IdleCall EXCEPT !.pc = "markNotificationAsRead:update",
                                     !.in = Call("markNotificationAsRead",
                                                 [id |-> notificationId]),
                                     !.vals = [read_at |-> now]]]
    /\ UNCHANGED <<users, jobs, cv_files, ai_parsed_data, applications, interviews,
                   notifications, reports, now, last, jobTargets, returned, result>>

\* (mutant) a notification that is marked read is removed from the table
markNotificationAsRead_Update_Deletes(p) ==
    LET in == calls[p].in
    IN /\ calls[p].pc = "markNotificationAsRead:update"
       /\ IF ~Exists(notifications, in.id)
          THEN /\ Throw(p, in, "not_found:notification")
               /\ UNCHANGED notifications
          ELSE /\ notifications' = SelectSeq(notifications, LAMBDA n : n.id # in.id)
               /\ Return(p, in, in.id)
       /\ UNCHANGED <<users, jobs, cv_files, ai_parsed_data, applications, interviews,
                      reports, now, jobTargets, returned, result>>

\* (mutant) marking a notification that does not exist returns quietly
markNotificationAsRead_Update_Quiet(p) ==
    LET in == calls[p].in
    IN /\ calls[p].pc = "markNotificationAsRead:update"
       /\ IF ~Exists(notifications, in.id)
          THEN /\ Return(p, in, NULL)
               /\ UNCHANGED notifications
          ELSE /\ notifications' = SetRow(notifications, in.id, calls[p].vals)
               /\ Return(p, in, in.id)
       /\ UNCHANGED <<users, jobs, cv_files, ai_parsed_data, applications, interviews,
                      reports, now, jobTargets, returned, result>>

\* markNotificationAsRead, its statement: the update, which returns the
\* rows it has changed
markNotificationAsRead_Update(p) ==
    LET in == calls[p].in
    IN /\ calls[p].pc = "markNotificationAsRead:update"
       /\ IF ~Exists(notifications, in.id)
          THEN /\ Throw(p, in, "not_found:notification")
               /\ UNCHANGED notifications
          ELSE /\ notifications' = SetRow(notifications, in.id, calls[p].vals)
               /\ Return(p, in, in.id)
       /\ UNCHANGED <<users, jobs, cv_files, ai_parsed_data, applications, interviews,
                      reports, now, jobTargets, returned, result>>

\* the sequences that list every element of the set S once
Orderings(S) ==
    {q \in [1..Cardinality(S) -> S] : \A i, j \in 1..Cardinality(S) : i # j => q[i] # q[j]}

\* the rows of a table at the ids listed in q
Rows(table, q) == [i \in DOMAIN q |-> table[q[i]]]

\* unread_only of getUserNotificationsInputSchema: a boolean, or absent
UnreadOnlyInputs == {"true", "false", UNDEFINED}

\* (mutant) the unread filter is not applied
NotificationsOf_All(user_id, unread_only) ==
    {n \in Ids(notifications) : notifications[n].user_id = user_id}

\* the WHERE clause of getUserNotifications
NotificationsOf(user_id, unread_only) ==
    {n \in Ids(notifications) :
        /\ notifications[n].user_id = user_id
        /\ unread_only = "true" => notifications[n].read_at = NULL}

\* ORDER BY created_at DESC: rows created at the same time come in any order
NewestFirst(table, q) ==
    \A i, j \in DOMAIN q : i < j => table[q[i]].created_at >= table[q[j]].created_at

\* getUserNotifications, one statement
getUserNotifications(user_id, unread_only) ==
    /\ \E q \in Orderings(NotificationsOf(user_id, unread_only)) :
          /\ NewestFirst(notifications, q)
          /\ result' = Rows(notifications, q)
    /\ last' = Call("getUserNotifications", [id |-> user_id, status |-> unread_only])
    /\ UNCHANGED <<users, jobs, cv_files, ai_parsed_data, applications, interviews,
                   notifications, reports, now, jobTargets, calls, returned>>

\* the inner join of the notification with its user: no row when either is missing
NotificationWithUser(notificationId) ==
    {n \in Ids(notifications) : n = notificationId /\ Exists(users, notifications[n].user_id)}

\* (mutant) a notification already sent is reported as not sent (ret = 0)
sendEmailNotification_Select_Once(p, notificationId) ==
    LET in == Call("sendEmailNotification", [id |-> notificationId])
    IN /\ calls[p].pc = "idle"
       /\ IF NotificationWithUser(notificationId) = {}
          THEN Throw(p, in, "not_found:notification")
          ELSE IF notifications[notificationId].email_sent
          THEN Return(p, in, 0)
          ELSE /\ calls' = [calls EXCEPT ![p] =
                              [IdleCall EXCEPT !.pc = "sendEmailNotification:update", !.in = in]]
               /\ UNCHANGED last
       /\ UNCHANGED <<users, jobs, cv_files, ai_parsed_data, applications, interviews,
                      notifications, reports, now, jobTargets, returned, result>>

\* sendEmailNotification, first statement: the lookup of the notification
\* and its user; a notification already sent, the call returns true (ret = 1)
sendEmailNotification_Select(p, notificationId) ==
    LET in == Call("sendEmailNotification", [id |-> notificationId])
    IN /\ calls[p].pc = "idle"
       /\ IF NotificationWithUser(notificationId) = {}
          THEN Throw(p, in, "not_found:notification")
          ELSE IF notifications[notificationId].email_sent
          THEN Return(p, in, 1)
          ELSE /\ calls' = [calls EXCEPT ![p] =
                              [IdleCall EXCEPT !.pc = "sendEmailNotification:update", !.in = in]]
               /\ UNCHANGED last
       /\ UNCHANGED <<users, jobs, cv_files, ai_parsed_data, applications, interviews,
                      notifications, reports, now, jobTargets, returned, result>>

\* sendEmailNotification, second statement: the update of email_sent; the
\* call returns whether a row was updated
sendEmailNotification_Update(p) ==
    LET in == calls[p].in
    IN /\ calls[p].pc = "sendEmailNotification:update"
       /\ notifications' = SetRow(notifications, in.id, [email_sent |-> TRUE])
       /\ Return(p, in, 1)
       /\ UNCHANGED <<users, jobs, cv_files, ai_parsed_data, applications, interviews,
                      reports, now, jobTargets, returned, result>>

(***************************************************************************)
(* Listings and dashboards.  A query leaves the store alone and returns    *)
(* rows, or a record of numbers.  A dashboard awaits its queries one after *)
(* the other; of the lists and the weekly metrics it also returns, only    *)
(* the candidate's upcoming interviews are kept: the other queries are     *)
(* awaited, and what they read is left out of the result.                  *)
(***************************************************************************)
\* (mutant) applications without a score are put first
CompareApplications_NullsFirst(a, b) ==
    IF a.ai_match_score # NULL /\ b.ai_match_score = NULL THEN 1
    ELSE IF a.ai_match_score = NULL /\ b.ai_match_score # NULL THEN -1
    ELSE IF /\ a.ai_match_score # NULL /\ b.ai_match_score # NULL
            /\ a.ai_match_score # b.ai_match_score
         THEN b.ai_match_score - a.ai_match_score
    ELSE b.created_at - a.created_at

\* the comparator getApplicationsByJob sorts with: negative when a comes first
CompareApplications(a, b) ==
    IF a.ai_match_score # NULL /\ b.ai_match_score = NULL THEN -1
    ELSE IF a.ai_match_score = NULL /\ b.ai_match_score # NULL THEN 1
    ELSE IF /\ a.ai_match_score # NULL /\ b.ai_match_score # NULL
            /\ a.ai_match_score # b.ai_match_score
         THEN b.ai_match_score - a.ai_match_score
    ELSE b.created_at - a.created_at

\* Array.prototype.sort with that comparator: a stable sort, rows that
\* compare equal keep the order they come in
RECURSIVE SortApplications(_)
SortApplications(rows) ==
    IF rows = <<>> THEN <<>>
    ELSE LET sorted == SortApplications(SubSeq(rows, 1, Len(rows) - 1))
             x == rows[Len(rows)]
             k == Cardinality({i \in 1..Len(sorted) : CompareApplications(sorted[i], x) <= 0})
         IN SubSeq(sorted, 1, k) \o <<x>> \o SubSeq(sorted, k + 1, Len(sorted))

\* ORDER BY ai_match_score DESC, created_at DESC as PostgreSQL orders it:
\* nulls first when descending, rows equal on both keys in any order
ScoreOrder(q) ==
    \A i, j \in DOMAIN q :
        i < j => LET a == applications[q[i]]
                     b == applications[q[j]]
                 IN \/ a.ai_match_score = NULL /\ b.ai_match_score # NULL
                    \/ /\ a.ai_match_score # NULL /\ b.ai_match_score # NULL
                       /\ a.ai_match_score > b.ai_match_score
                    \/ /\ a.ai_match_score = b.ai_match_score
                       /\ a.created_at >= b.created_at

getApplicationsByJob(job_id) ==
    /\ \E q \in Orderings({a \in Ids(applications) : applications[a].job_id = job_id}) :
          /\ ScoreOrder(q)
          /\ result' = SortApplications(Rows(applications, q))
    /\ last' = Call("getApplicationsByJob", [id |-> job_id])
    /\ UNCHANGED <<users, jobs, cv_files, ai_parsed_data, applications, interviews,
                   notifications, reports, now, jobTargets, calls, returned>>

\* count(): the number of rows of a table, given by their ids, that satisfy
\* the WHERE clause
Count(ids) == Cardinality(ids)

RECURSIVE SumScores(_)
SumScores(rows) ==
    IF rows = <<>> THEN 0
    ELSE Head(rows).ai_match_score + SumScores(Tail(rows))

\* (mutant) the mean is truncated
RoundedMean_Truncated(sum, n) ==
    IF n = 0 \/ sum = 0 THEN 0
    ELSE sum \div n

\* Math.round(Number(avg) || 0) of the mean sum / n of n scores: avg over no
\* row is null, Number(null) and a mean of 0 are falsy, Math.round(x) is
\* floor(x + 0.5)
RoundedMean(sum, n) ==
    IF n = 0 \/ sum = 0 THEN 0
    ELSE (2 * sum + n) \div (2 * n)

\* applications joined with their job, for the jobs created by requesterId
ReceivedBy(a, requesterId) ==
    Exists(jobs, a.job_id) /\ jobs[a.job_id].created_by = requesterId

\* the figures a dashboard or a report has read, with what statement k has
\* read where the result has a name for it
Read(figures, names, k, value) ==
    IF k \in DOMAIN names THEN With(figures, names[k], value) ELSE figures

\* the statements getRequesterDashboard awaits, and the figures of the first six
RequesterQueries == 9
RequesterFigures == <<"totalJobPostings", "pendingApprovals", "activeJobPostings",
                      "totalApplicationsReceived", "candidatesInPipeline",
                      "averageMatchScore">>

\* what statement k of getRequesterDashboard reads (7: the recent
\* applications, 8 and 9: the weekly counts, left out)
RequesterFigure(k, requesterId) ==
    CASE k = 1 -> Count({j \in Ids(jobs) : jobs[j].created_by = requesterId})
      [] k = 2 -> Count({j \in Ids(jobs) : /\ jobs[j].created_by = requesterId
                                           /\ jobs[j].status = "pending_approval"})
      [] k = 3 -> Count({j \in Ids(jobs) : /\ jobs[j].created_by = requesterId
                                           /\ jobs[j].status = "published"})
      [] k = 4 -> Count({a \in Ids(applications) : ReceivedBy(applications[a], requesterId)})
      [] k = 5 -> Count({a \in Ids(applications) :
                          /\ ReceivedBy(applications[a], requesterId)
                          /\ applications[a].status \notin {"rejected", "hired", "offer_rejected"}})
      [] k = 6 -> LET scored == SelectSeq(applications, LAMBDA a :
                                   ReceivedBy(a, requesterId) /\ a.ai_match_score # NULL)
                  IN RoundedMean(SumScores(scored), Len(scored))
      [] OTHER -> NULL

\* getRequesterDashboard, first statement
getRequesterDashboard_First(p, requesterId) ==
    /\ calls[p].pc = "idle"
    /\ calls' = [calls EXCEPT ![p] =
                    [IdleCall EXCEPT !.pc = "getRequesterDashboard:query",
                                     !.in = Call("getRequesterDashboard", [id |-> requesterId]),
                                     !.vals = Read(NoVals, RequesterFigures, 1,
                                                   RequesterFigure(1, requesterId)),
                                     !.row = 2]]
    /\ UNCHANGED <<users, jobs, cv_files, ai_parsed_data, applications, interviews,
                   notifications, reports, now, last, jobTargets, returned, result>>

\* getRequesterDashboard, each later statement; after the last, the call returns
getRequesterDashboard_Query(p) ==
    LET in == calls[p].in
        k == calls[p].row
        figures == Read(calls[p].vals, RequesterFigures, k, RequesterFigure(k, in.id))
    IN /\ calls[p].pc = "getRequesterDashboard:query"
       /\ IF k = RequesterQueries
          THEN ReturnResult(p, in, figures)
          ELSE /\ calls' = [calls EXCEPT ![p] = [@ EXCEPT !.vals = figures, !.row = k + 1]]
               /\ UNCHANGED <<last, result>>
       /\ UNCHANGED <<users, jobs, cv_files, ai_parsed_data, applications, interviews,
                      notifications, reports, now, jobTargets, returned>>

\* interviews joined with their application, for the applications of candidateId
InterviewOf(i, candidateId) ==
    /\ Exists(applications, i.application_id)
    /\ applications[i.application_id].candidate_id = candidateId

\* the WHERE clause of the count of upcoming interviews
UpcomingInterviews(candidateId, at) ==
    {i \in Ids(interviews) :
        /\ InterviewOf(interviews[i], candidateId)
        /\ interviews[i].scheduled_at >= at
        /\ interviews[i].status = "scheduled"}

\* the WHERE clause of the list of upcoming interviews, over interviews
\* joined with their application, its job and the interviewer
UpcomingSchedules(candidateId, at) ==
    {i \in Ids(interviews) :
        /\ InterviewOf(interviews[i], candidateId)
        /\ Exists(jobs, applications[interviews[i].application_id].job_id)
        /\ Exists(users, interviews[i].interviewer_id)
        /\ interviews[i].scheduled_at >= at
        /\ interviews[i].status = "scheduled"}

\* ORDER BY scheduled_at: interviews at the same time come in any order
ByScheduledAt(q) ==
    \A i, j \in DOMAIN q : i < j => interviews[q[i]].scheduled_at <= interviews[q[j]].scheduled_at

\* the statements getCandidateDashboard awaits, and the figures of the first four
CandidateQueries == 6
CandidateFigures == <<"totalApplications", "pendingApplications",
                      "shortlistedApplications", "upcomingInterviews">>

\* what statement k of getCandidateDashboard reads (5: the recent
\* applications, left out; 6: the list of upcoming interviews)
CandidateFigure(k, candidateId, at) ==
    CASE k = 1 -> Count({a \in Ids(applications) : applications[a].candidate_id = candidateId})
      [] k = 2 -> Count({a \in Ids(applications) :
                          applications[a].candidate_id = candidateId /\ applications[a].status = "pending"})
      [] k = 3 -> Count({a \in Ids(applications) :
                          applications[a].candidate_id = candidateId /\ applications[a].status = "shortlisted"})
      [] k = 4 -> Count(UpcomingInterviews(candidateId, at))
      [] OTHER -> NULL

\* (mutant) opening the dashboard marks the candidate's notifications read
getCandidateDashboard_First_MarksRead(p, candidateId) ==
    /\ calls[p].pc = "idle"
    /\ calls' = [calls EXCEPT ![p] =
                    [IdleCall EXCEPT !.pc = "getCandidateDashboard:query",
                                     !.in = Call("getCandidateDashboard", [id |-> candidateId]),
                                     !.vals = Read(NoVals, CandidateFigures, 1,
                                                   CandidateFigure(1, candidateId, NULL)),
                                     !.row = 2]]
    /\ notifications' = [n \in DOMAIN notifications |->
                            IF notifications[n].user_id = candidateId
                            THEN [notifications[n] EXCEPT !.read_at = now]
                            ELSE notifications[n]]
    /\ UNCHANGED <<users, jobs, cv_files, ai_parsed_data, applications, interviews,
                   reports, now, last, jobTargets, returned, result>>

\* getCandidateDashboard, first statement
getCandidateDashboard_First(p, candidateId) ==
    /\ calls[p].pc = "idle"
    /\ calls' = [calls EXCEPT ![p] =
                    [IdleCall EXCEPT !.pc = "getCandidateDashboard:query",
                                     !.in = Call("getCandidateDashboard", [id |-> candidateId]),
                                     !.vals = Read(NoVals, CandidateFigures, 1,
                                                   CandidateFigure(1, candidateId, NULL)),
                                     !.row = 2]]
    /\ UNCHANGED <<users, jobs, cv_files, ai_parsed_data, applications, interviews,
                   notifications, reports, now, last, jobTargets, returned, result>>

\* getCandidateDashboard, second to fifth statement; now is read once, when
\* the third has answered
getCandidateDashboard_Query(p) ==
    LET in == calls[p].in
        k == calls[p].row
    IN /\ calls[p].pc = "getCandidateDashboard:query"
       /\ k < CandidateQueries
       /\ calls' = [calls EXCEPT ![p] =
                       [@ EXCEPT !.vals = Read(calls[p].vals, CandidateFigures, k,
                                               CandidateFigure(k, in.id, calls[p].at)),
                                 !.at = IF k = 3 THEN now ELSE @,
                                 !.row = k + 1]]
       /\ UNCHANGED <<users, jobs, cv_files, ai_parsed_data, applications, interviews,
                      notifications, reports, now, last, jobTargets, returned, result>>

\* getCandidateDashboard, last statement: the list of upcoming interviews;
\* the call returns
getCandidateDashboard_Schedules(p) ==
    LET in == calls[p].in
    IN /\ calls[p].pc = "getCandidateDashboard:query"
       /\ calls[p].row = CandidateQueries
       /\ \E q \in Orderings(UpcomingSchedules(in.id, calls[p].at)) :
             /\ ByScheduledAt(q)
             /\ ReturnResult(p, in, With(calls[p].vals, "upcomingInterviewSchedules",
                                         Rows(interviews, q)))
       /\ UNCHANGED <<users, jobs, cv_files, ai_parsed_data, applications, interviews,
                      notifications, reports, now, jobTargets, returned>>

\* the statements getAdminDashboard awaits, and the figures of the first five
AdminQueries == 10
AdminFigures == <<"totalUsers", "totalJobs", "totalApplications",
                  "pendingJobApprovals", "aiProcessingQueue">>

\* what statement k of getAdminDashboard reads (6 to 10: the counts by
\* role and by status and the recent activity, left out)
AdminFigure(k) ==
    CASE k = 1 -> Len(users)
      [] k = 2 -> Len(jobs)
      [] k = 3 -> Len(applications)
      [] k = 4 -> Count({j \in Ids(jobs) : jobs[j].status = "pending_approval"})
      [] k = 5 -> Count({d \in Ids(ai_parsed_data) :
                          ai_parsed_data[d].processing_status \in {"pending", "processing"}})
      [] OTHER -> NULL

\* getAdminDashboard, first statement
getAdminDashboard_First(p) ==
    /\ calls[p].pc = "idle"
    /\ calls' = [calls EXCEPT ![p] =
                    [IdleCall EXCEPT !.pc = "getAdminDashboard:query",
                                     !.in = Call("getAdminDashboard", [id |-> NULL]),
                                     !.vals = Read(NoVals, AdminFigures, 1, AdminFigure(1)),
                                     !.row = 2]]
    /\ UNCHANGED <<users, jobs, cv_files, ai_parsed_data, applications, interviews,
                   notifications, reports, now, last, jobTargets, returned, result>>

\* getAdminDashboard, each later statement; after the last, the call returns
getAdminDashboard_Query(p) ==
    LET in == calls[p].in
        k == calls[p].row
        figures == Read(calls[p].vals, AdminFigures, k, AdminFigure(k))
    IN /\ calls[p].pc = "getAdminDashboard:query"
       /\ IF k = AdminQueries
          THEN ReturnResult(p, in, figures)
          ELSE /\ calls' = [calls EXCEPT ![p] = [@ EXCEPT !.vals = figures, !.row = k + 1]]
               /\ UNCHANGED <<last, result>>
       /\ UNCHANGED <<users, jobs, cv_files, ai_parsed_data, applications, interviews,
                      notifications, reports, now, jobTargets, returned>>

(***************************************************************************)
(* Weekly reports.  report_data holds the four counts and the three        *)
(* figures the code rounds to two decimals (timeToFill,                    *)
(* offerAcceptanceRate, averageMatchRate), each in hundredths.             *)
(***************************************************************************)
\* (mutant) the window is open at its end
InWindow_HalfOpen(t, weekStart, weekEnd) == t >= weekStart /\ t < weekEnd

\* gte(column, weekStart), lte(column, weekEnd)
InWindow(t, weekStart, weekEnd) == t >= weekStart /\ t <= weekEnd

\* interviews joined with their application and its job, for the jobs
\* created by requesterId
InterviewReceivedBy(i, requesterId) ==
    /\ Exists(applications, i.application_id)
    /\ ReceivedBy(applications[i.application_id], requesterId)

(***************************************************************************)
(* Numbers.  A JavaScript number is an IEEE 754 double: 53 significant     *)
(* bits and an exponent.  A positive double is the record of its bits,     *)
(* first bit 1, and the exponent of its last bit; 0 has no bits.  Every    *)
(* operation rounds its exact result to the nearest double, a tie to the   *)
(* double whose last bit is 0.                                             *)
(***************************************************************************)
Precision == 53

DoubleZero == [bits |-> <<>>, exp |-> 0]

\* n binary digits 0
Zeros(n) == [i \in 1..n |-> 0]

RECURSIVE BitsOf(_)
\* the binary digits of a natural number, none for 0
BitsOf(n) == IF n = 0 THEN <<>> ELSE Append(BitsOf(n \div 2), n % 2)

RECURSIVE ValueOf(_)
\* the natural number with these binary digits
ValueOf(bits) ==
    IF bits = <<>> THEN 0
    ELSE 2 * ValueOf(SubSeq(bits, 1, Len(bits) - 1)) + bits[Len(bits)]

\* the double nearest to bits * 2^exp, plus a positive amount below the
\* last bit when inexact: the digits from the first 1 on, cut to Precision
\* digits and raised by one in the last place when what is cut is more than
\* half of it, or half of it and the last digit kept is 1
RoundToDouble(bits, exp, inexact) ==
    LET ones == {i \in 1..Len(bits) : bits[i] = 1}
        sig == IF ones = {} THEN <<>>
               ELSE SubSeq(bits, CHOOSE i \in ones : \A j \in ones : i <= j, Len(bits))
        n == Len(sig)
    IN IF sig = <<>> THEN DoubleZero
       ELSE IF n <= Precision
       THEN [bits |-> sig \o Zeros(Precision - n), exp |-> exp - (Precision - n)]
       ELSE LET kept == SubSeq(sig, 1, Precision)
                 half == sig[Precision + 1]
                 more == inexact \/ \E i \in (Precision + 2)..n : sig[i] = 1
                 up == half = 1 /\ (more \/ kept[Precision] = 1)
                 zeros == {i \in 1..Precision : kept[i] = 0}
                 k == CHOOSE i \in zeros : \A j \in zeros : i >= j
             IN IF ~up THEN [bits |-> kept, exp |-> exp + (n - Precision)]
                ELSE IF zeros = {}
                THEN [bits |-> <<1>> \o Zeros(Precision - 1), exp |-> exp + (n - Precision) + 1]
                ELSE [bits |-> SubSeq(kept, 1, k - 1) \o <<1>> \o Zeros(Precision - k),
                      exp |-> exp + (n - Precision)]

RECURSIVE FractionBits(_, _, _)
\* the first places binary places of r / d, for 0 <= r < d, and what is
\* left: the places of the first half, then those of what that leaves
FractionBits(r, d, places) ==
    IF places = 0 \/ r = 0 THEN [bits |-> Zeros(places), rem |-> r]
    ELSE IF places = 1
    THEN IF r >= d - r THEN [bits |-> <<1>>, rem |-> r - (d - r)]
                       ELSE [bits |-> <<0>>, rem |-> r + r]
    ELSE LET first == FractionBits(r, d, places \div 2)
             rest == FractionBits(first.rem, d, places - Len(first.bits))
         IN [bits |-> first.bits \o rest.bits, rem |-> rest.rem]

\* the double num / den of two integers, num >= 0 < den
\* (Precision + 32 binary places are computed before the rounding: a
\* quotient of two 31-bit integers has its first 1 within 31 places)
Quotient(num, den) ==
    LET places == Precision + 32
        f == FractionBits(num % den, den, places)
    IN RoundToDouble(BitsOf(num \div den) \o f.bits, -places, f.rem # 0)

RECURSIVE TimesBits(_, _, _)
\* the digits of a number times a small natural number c, plus carry, and
\* the carry out of them: the product of the last half, then of the rest
TimesBits(bits, c, carry) ==
    IF bits = <<>> THEN [bits |-> <<>>, carry |-> carry]
    ELSE IF Len(bits) = 1
    THEN [bits |-> <<(bits[1] * c + carry) % 2>>, carry |-> (bits[1] * c + carry) \div 2]
    ELSE LET h == Len(bits) - Len(bits) \div 2
             low == TimesBits(SubSeq(bits, h + 1, Len(bits)), c, carry)
             high == TimesBits(SubSeq(bits, 1, Len(bits) - Len(low.bits)), c, low.carry)
         IN [bits |-> high.bits \o low.bits, carry |-> high.carry]

\* x * c in doubles, for a small natural number c
Times(x, c) ==
    LET product == TimesBits(x.bits, c, 0)
    IN RoundToDouble(BitsOf(product.carry) \o product.bits, x.exp, FALSE)

\* Math.round(x) of a double x >= 0 below 2^31: floor(x + 0.5)
MathRound(x) ==
    LET n == Len(x.bits)
        whole == n + x.exp
    IN IF x.bits = <<>> THEN 0
       ELSE IF x.exp >= 0 THEN ValueOf(x.bits \o Zeros(x.exp))
       ELSE IF whole < 0 THEN 0
       ELSE ValueOf(SubSeq(x.bits, 1, whole)) + x.bits[whole + 1]

\* Math.round(x * 100) / 100 of a double x >= 0, in hundredths
RoundedHundredths(x) == MathRound(Times(x, 100))

RECURSIVE SumTimeToFill(_)
\* the days from the creation of the job to the last update of the
\* application, summed over applications (the clock counts days)
SumTimeToFill(rows) ==
    IF rows = <<>> THEN 0
    ELSE (Head(rows).updated_at - jobs[Head(rows).job_id].created_at)
         + SumTimeToFill(Tail(rows))

\* the queries generateWeeklyReport awaits before its insert, and the
\* locals they give
ReportQueries == 7
ReportFigures == <<"totalApplications", "shortlistedApplications", "interviewsScheduled",
                   "offersExtended", "averageMatchRate", "acceptedOffers", "timeToFill">>

\* what query k of generateWeeklyReport reads.  AVG over no row is null, and
\* the local 0; the mean the store returns is read as the nearest double
ReportFigure(k, requesterId, weekStart, weekEnd) ==
    LET created(a) == ReceivedBy(a, requesterId) /\ InWindow(a.created_at, weekStart, weekEnd)
        updated(a) == ReceivedBy(a, requesterId) /\ InWindow(a.updated_at, weekStart, weekEnd)
        scored == SelectSeq(applications, LAMBDA a : created(a) /\ a.ai_match_score # NULL)
        accepted == SelectSeq(applications, LAMBDA a :
                                  updated(a) /\ a.status = "offer_accepted")
    IN CASE k = 1 -> Count({a \in Ids(applications) : created(applications[a])})
         [] k = 2 -> Count({a \in Ids(applications) : /\ created(applications[a])
                                                      /\ applications[a].status = "shortlisted"})
         [] k = 3 -> Count({i \in Ids(interviews) :
                             /\ InterviewReceivedBy(interviews[i], requesterId)
                             /\ InWindow(interviews[i].created_at, weekStart, weekEnd)})
         [] k = 4 -> Count({a \in Ids(applications) : /\ updated(applications[a])
                                                      /\ applications[a].status = "offer_made"})
         [] k = 5 -> IF Len(scored) > 0
                     THEN Quotient(SumScores(scored), Len(scored))
                     ELSE DoubleZero
         [] k = 6 -> Len(accepted)
         [] k = 7 -> IF Len(accepted) > 0
                     THEN Quotient(SumTimeToFill(accepted), Len(accepted))
                     ELSE DoubleZero
         [] OTHER -> NULL

\* the reportData object built from the locals
ReportData(figures) ==
    [timeToFill |-> RoundedHundredths(figures.timeToFill),
     offerAcceptanceRate |->
         IF figures.offersExtended > 0
         THEN RoundedHundredths(
                  Times(Quotient(figures.acceptedOffers, figures.offersExtended), 100))
         ELSE 0,
     averageMatchRate |-> RoundedHundredths(figures.averageMatchRate),
     totalApplications |-> figures.totalApplications,
     shortlistedApplications |-> figures.shortlistedApplications,
     interviewsScheduled |-> figures.interviewsScheduled,
     offersExtended |-> figures.offersExtended]

\* generateWeeklyReport, first query: the metrics are computed whoever
\* requesterId is and however the two dates lie
generateWeeklyReport_First(p, requesterId, weekStart, weekEnd) ==
    /\ calls[p].pc = "idle"
    /\ calls' = [calls EXCEPT ![p] =
                    [IdleCall EXCEPT !.pc = "generateWeeklyReport:query",
                                     !.in = Call("generateWeeklyReport", [id |-> requesterId]),
                                     !.x = [week_start |-> weekStart, week_end |-> weekEnd],
                                     !.vals = Read(NoVals, ReportFigures, 1,
                                                   ReportFigure(1, requesterId, weekStart, weekEnd)),
                                     !.row = 2]]
    /\ UNCHANGED <<users, jobs, cv_files, ai_parsed_data, applications, interviews,
                   notifications, reports, now, last, jobTargets, returned, result>>

\* generateWeeklyReport, each later query; after the last, reportData is built
generateWeeklyReport_Query(p) ==
    LET in == calls[p].in
        k == calls[p].row
        figures == Read(calls[p].vals, ReportFigures, k,
                        ReportFigure(k, in.id, calls[p].x.week_start, calls[p].x.week_end))
    IN /\ calls[p].pc = "generateWeeklyReport:query"
       /\ IF k = ReportQueries
          THEN calls' = [calls EXCEPT ![p] = [@ EXCEPT !.pc = "generateWeeklyReport:insert",
                                                       !.vals = ReportData(figures),
                                                       !.row = NULL]]
          ELSE calls' = [calls EXCEPT ![p] = [@ EXCEPT !.vals = figures, !.row = k + 1]]
       /\ UNCHANGED <<users, jobs, cv_files, ai_parsed_data, applications, interviews,
                      notifications, reports, now, last, jobTargets, returned, result>>

\* (mutant) one report per requester and week: a second call returns the
\* report already stored
generateWeeklyReport_Insert_Dedup(p) ==
    LET in == calls[p].in
        same == {r \in Ids(reports) :
                    /\ reports[r].requester_id = in.id
                    /\ reports[r].week_start = calls[p].x.week_start
                    /\ reports[r].week_end = calls[p].x.week_end}
    IN /\ calls[p].pc = "generateWeeklyReport:insert"
       /\ IF same # {}
          THEN /\ Return(p, in, CHOOSE r \in same : TRUE)
               /\ UNCHANGED reports
          ELSE /\ reports' = Append(reports,
                     [id |-> Len(reports) + 1, requester_id |-> in.id,
                      report_type |-> "weekly", report_data |-> calls[p].vals,
                      generated_at |-> now, week_start |-> calls[p].x.week_start,
                      week_end |-> calls[p].x.week_end])
               /\ Return(p, in, Len(reports) + 1)
       /\ UNCHANGED <<users, jobs, cv_files, ai_parsed_data, applications, interviews,
                      notifications, now, jobTargets, returned, result>>

\* generateWeeklyReport, last statement: the insert; generated_at is the
\* column default
generateWeeklyReport_Insert(p) ==
    LET in == calls[p].in
    IN /\ calls[p].pc = "generateWeeklyReport:insert"
       /\ reports' = Append(reports,
             [id |-> Len(reports) + 1, requester_id |-> in.id,
              report_type |-> "weekly", report_data |-> calls[p].vals,
              generated_at |-> now, week_start |-> calls[p].x.week_start,
              week_end |-> calls[p].x.week_end])
       /\ Return(p, in, Len(reports) + 1)
       /\ UNCHANGED <<users, jobs, cv_files, ai_parsed_data, applications, interviews,
                      notifications, now, jobTargets, returned, result>>

\* ORDER BY generated_at: reports generated at the same time come in any order
OldestFirst(q) ==
    \A i, j \in DOMAIN q : i < j => reports[q[i]].generated_at <= reports[q[j]].generated_at

\* getReportsByRequester, one statement
getReportsByRequester(requesterId) ==
    /\ \E q \in Orderings({r \in Ids(reports) : reports[r].requester_id = requesterId}) :
          /\ OldestFirst(q)
          /\ result' = Rows(reports, q)
    /\ last' = Call("getReportsByRequester", [id |-> requesterId])
    /\ UNCHANGED <<users, jobs, cv_files, ai_parsed_data, applications, interviews,
                   notifications, reports, now, jobTargets, calls, returned>>

(***************************************************************************)
(* AI processing of a CV.  processCVWithAI awaits the store at its four    *)
(* statements and, between the insert and the update, the simulated AI     *)
(* service for 100 ms.                                                     *)
(***************************************************************************)
\* (mutant) the second lookup finds nothing
ParsedDataOf_None(cvFileId) ==
    {r \in Ids(ai_parsed_data) : FALSE}

\* the rows the second lookup selects
ParsedDataOf(cvFileId) ==
    {r \in Ids(ai_parsed_data) : ai_parsed_data[r].cv_file_id = cvFileId}

\* the call returns row r as it is in the store after this step; via tells
\* the return statement: of the record found ("existing") or of the record
\* the call has inserted and updated ("processed")
ReturnParsedData(p, in, r, status, via) ==
    /\ calls' = [calls EXCEPT ![p] = IdleCall]
    /\ last' = [in EXCEPT !.ret = r, !.status = status]
    /\ returned' = [returned EXCEPT ![in.id] = @ \cup {<<r, via>>}]

\* processCVWithAI, first statement: the lookup of the CV file
processCVWithAI_SelectFile(p, cvFileId) ==
    LET in == Call("processCVWithAI", [id |-> cvFileId])
    IN /\ calls[p].pc = "idle"
       /\ IF ~Exists(cv_files, cvFileId)
          THEN Throw(p, in, "not_found:cv_file")
          ELSE /\ calls' = [calls EXCEPT ![p] =
                              [IdleCall EXCEPT !.pc = "processCVWithAI:parsed", !.in = in]]
               /\ UNCHANGED last
       /\ UNCHANGED <<users, jobs, cv_files, ai_parsed_data, applications, interviews,
                      notifications, reports, now, jobTargets, returned, result>>

\* processCVWithAI, second statement: the lookup of the parsed data already
\* stored for the file.  A SELECT without ORDER BY may list several matching
\* rows in any order, so existingParsedData[0] is any of them.
processCVWithAI_SelectParsed(p) ==
    LET in == calls[p].in
    IN /\ calls[p].pc = "processCVWithAI:parsed"
       /\ IF ParsedDataOf(in.id) # {}
          THEN \E r \in ParsedDataOf(in.id) :
                  ReturnParsedData(p, in, r, ai_parsed_data[r].processing_status, "existing")
          ELSE /\ calls' = [calls EXCEPT ![p].pc = "processCVWithAI:insert"]
               /\ UNCHANGED <<last, returned>>
       /\ UNCHANGED <<users, jobs, cv_files, ai_parsed_data, applications, interviews,
                      notifications, reports, now, jobTargets, result>>

\* processCVWithAI, third statement: the insert of the "processing" row
processCVWithAI_Insert(p) ==
    /\ calls[p].pc = "processCVWithAI:insert"
    /\ ai_parsed_data' = Append(ai_parsed_data,
          [id |-> Len(ai_parsed_data) + 1, cv_file_id |-> calls[p].in.id,
           parsed_data |-> "{}", processing_status |-> "processing",
           created_at |-> now, updated_at |-> now])
    /\ calls' = [calls EXCEPT ![p] = [@ EXCEPT !.pc = "processCVWithAI:simulate",
                                               !.row = Len(ai_parsed_data) + 1]]
    /\ UNCHANGED <<users, jobs, cv_files, applications, interviews, notifications,
                   reports, now, last, jobTargets, returned, result>>

\* the simulated AI service answers: the values of the update are built
processCVWithAI_Simulated(p) ==
    /\ calls[p].pc = "processCVWithAI:simulate"
    /\ calls' = [calls EXCEPT ![p] =
                    [@ EXCEPT !.pc = "processCVWithAI:update",
                              !.vals = [parsed_data |-> "mockAIResponse",
                                        processing_status |-> "completed",
                                        updated_at |-> now]]]
    /\ UNCHANGED <<users, jobs, cv_files, ai_parsed_data, applications, interviews,
                   notifications, reports, now, last, jobTargets, returned, result>>

\* processCVWithAI, fourth statement: the update, which returns the row
processCVWithAI_Update(p) ==
    /\ calls[p].pc = "processCVWithAI:update"
    /\ ai_parsed_data' = SetRow(ai_parsed_data, calls[p].row, calls[p].vals)
    /\ ReturnParsedData(p, calls[p].in, calls[p].row, "completed", "processed")
    /\ UNCHANGED <<users, jobs, cv_files, applications, interviews, notifications,
                   reports, now, jobTargets, result>>

(***************************************************************************)
(* The wall clock read by new Date() and by the column defaults now()      *)
(***************************************************************************)
Tick ==
    /\ now < MaxTime
    /\ now' = now + 1
    /\ UNCHANGED <<users, reports, result, jobs, cv_files, ai_parsed_data, applications,
                   interviews, notifications, last, jobTargets, calls, returned>>

Init ==
    /\ users = SeedUsers
    /\ jobs = <<>>
    /\ cv_files = <<>>
    /\ ai_parsed_data = <<>>
    /\ applications = <<>>
    /\ interviews = <<>>
    /\ notifications = <<>>
    /\ now = 0
    /\ last = NoCall
    /\ jobTargets = <<>>
    /\ calls = [p \in Procs |-> IdleCall]
    /\ returned = [f \in CVFileIdInputs |-> {}]
    /\ reports = <<>>
    /\ result = <<>>

(***************************************************************************)
(* Specifications.  The server answers the requests of Procs together: a   *)
(* request starts whatever the others are doing, and the statements of the *)
(* calls in progress interleave.  The handlers have no bound; a            *)
(* specification chooses the requests it is sent, and stops sending a      *)
(* request that adds a row when its table is full.                         *)
(***************************************************************************)
\* the calls of handler op in progress
InProgress(op) == Cardinality({p \in Procs : calls[p].in.op = op})

\* call p of a handler op whose first statement decides whether the call
\* inserts has started: the call has ended at once, or table has room for
\* its row when the calls in progress have added theirs
Room(p, table, op, max) ==
    calls'[p].pc = "idle" \/ Len(table) + InProgress(op) < max

\* the lookups of createApplication find what they look for in the store as
\* it is; no row is deleted and no CV file changes hands, so they find it
\* whenever they run
Applies(job_id, candidate_id, cv_file_id) ==
    /\ Exists(jobs, job_id)
    /\ Exists(users, candidate_id)
    /\ CVFileError(cv_file_id, candidate_id) = "none"

\* a createApplication call may start: a call that inserts, when applications
\* has room for its row and those of the calls in progress that insert;
\* every other call, always (it fails at a lookup, unless what it looks for
\* is stored while it runs)
ApplicationRoom(job_id, candidate_id, cv_file_id, max) ==
    LET applying == {p \in Procs : /\ calls[p].in.op = "createApplication"
                                   /\ Applies(calls[p].in.id, calls[p].in.id2,
                                              calls[p].in.id3)}
    IN Applies(job_id, candidate_id, cv_file_id)
          => Len(applications) + Cardinality(applying) < max

\* every request of the router, on every input
Next ==
    \/ \E e \in EmailInputs, r \in UserRole :
          /\ createUser(e, r)
          /\ Len(users') <= MaxUserId
    \/ \E u \in UserIdInputs :
          /\ createJob(u)
          /\ Len(jobs') <= MaxRows
    \/ \E p \in Procs, j \in JobIdInputs, s \in JobStatus, a \in UserIdInputs \cup {NULL} :
          updateJobStatus_Select(p, j, s, a)
    \/ \E p \in Procs : updateJobStatus_Update(p)
    \/ \E p \in Procs, u \in UserIdInputs :
          /\ uploadCV_Select(p, u)
          /\ Room(p, cv_files, "uploadCV", MaxRows)
    \/ \E p \in Procs : uploadCV_Insert(p)
    \/ \E p \in Procs, f \in CVFileIdInputs : processCVWithAI_SelectFile(p, f)
    \/ \E p \in Procs : processCVWithAI_SelectParsed(p)
    \/ \E p \in Procs : processCVWithAI_Insert(p)
    \/ \E p \in Procs : processCVWithAI_Simulated(p)
    \/ \E p \in Procs : processCVWithAI_Update(p)
    \/ \E p \in Procs, j \in JobIdInputs, u \in UserIdInputs, f \in CVFileIdInputs,
          t \in TextInputs :
          /\ createApplication_SelectJob(p, j, u, f, t)
          /\ ApplicationRoom(j, u, f, MaxRows)
    \/ \E p \in Procs : createApplication_SelectCandidate(p)
    \/ \E p \in Procs : createApplication_SelectCVFile(p)
    \/ \E p \in Procs : createApplication_Insert(p)
    \/ \E p \in Procs, a \in ApplicationIdInputs, s \in ApplicationStatus,
          t \in OptionalTextInputs :
          updateApplicationStatus_Request(p, a, s, t)
    \/ \E p \in Procs : updateApplicationStatus_Update(p)
    \/ \E a \in ApplicationIdInputs, u \in UserIdInputs, t \in TimeInputs,
          d \in DurationInputs,
          l \in LocationInputs, m \in MeetingLinkInputs :
          /\ scheduleInterview(a, u, t, d, l, m)
          /\ Len(interviews') <= MaxRows
          /\ Len(notifications') + InProgress("createNotification") <= MaxNotifications
    \/ \E p \in Procs, i \in InterviewIdInputs, s \in InterviewStatus \cup {UNDEFINED},
          t \in OptionalTextInputs, f \in OptionalTextInputs :
          updateInterview_Start(p, i, s, t, f)
    \/ \E p \in Procs : updateInterview_Update(p)
    \/ \E p \in Procs : updateInterview_Cascade(p)
    \/ \E p \in Procs, u \in UserIdInputs, t \in NotificationType :
          /\ createNotification_Select(p, u, t, "a")
          /\ Room(p, notifications, "createNotification", MaxNotifications)
    \/ \E p \in Procs : createNotification_Insert(p)
    \/ \E p \in Procs, n \in NotificationIdInputs : markNotificationAsRead_Start(p, n)
    \/ \E p \in Procs : markNotificationAsRead_Update(p)
    \/ \E p \in Procs, n \in NotificationIdInputs : sendEmailNotification_Select(p, n)
    \/ \E p \in Procs : sendEmailNotification_Update(p)
    \/ \E u \in UserIdInputs, o \in UnreadOnlyInputs : getUserNotifications(u, o)
    \/ \E j \in JobIdInputs : getApplicationsByJob(j)
    \/ \E p \in Procs, r \in UserIdInputs, ws \in TimeInputs, we \in TimeInputs :
          /\ generateWeeklyReport_First(p, r, ws, we)
          /\ Room(p, reports, "generateWeeklyReport", MaxReports)
    \/ \E p \in Procs : generateWeeklyReport_Query(p)
    \/ \E p \in Procs : generateWeeklyReport_Insert(p)
    \/ \E r \in UserIdInputs : getReportsByRequester(r)
    \/ \E p \in Procs, c \in UserIdInputs : getCandidateDashboard_First(p, c)
    \/ \E p \in Procs : getCandidateDashboard_Query(p)
    \/ \E p \in Procs : getCandidateDashboard_Schedules(p)
    \/ \E p \in Procs, r \in UserIdInputs : getRequesterDashboard_First(p, r)
    \/ \E p \in Procs : getRequesterDashboard_Query(p)
    \/ \E p \in Procs : getAdminDashboard_First(p)
    \/ \E p \in Procs : getAdminDashboard_Query(p)
    \/ Tick

Spec == Init /\ [][Next]_vars

JobNext ==
    \/ \E u \in {0, 2} :
          /\ createJob(u)
          /\ Len(jobs') <= MaxJobs
    \/ \E p \in Procs, s \in JobStatus, a \in {0, 2, NULL} :
          updateJobStatus_Select(p, 1, s, a)
    \/ \E p \in Procs : updateJobStatus_Select(p, MaxJobs + 1, "closed", NULL)
    \/ \E p \in Procs : updateJobStatus_Update(p)
    \/ Tick

\* jobs: creation and the status workflow, from the empty store
SpecJobs == Init /\ [][JobNext]_vars

\* the status workflow with requests served together: a job is created,
\* and updated to one status while it is updated to another
JobRaceNext ==
    \/ /\ createJob(2)
       /\ Len(jobs') <= MaxJobs
    \/ \E p \in Procs, j \in JobIdInputs, s \in JobStatus :
          updateJobStatus_Select(p, j, s, NULL)
    \/ \E p \in Procs : updateJobStatus_Update(p)
    \/ Tick

SpecJobRace == Init /\ [][JobRaceNext]_vars

\* a store in which a requester has created a job (createJob)
InitWithJob ==
    /\ users = SeedUsers
    /\ jobs = << [id |-> 1, status |-> "draft", created_by |-> 2, approved_by |-> NULL,
                  created_at |-> 0, updated_at |-> 0,
                  published_at |-> NULL, closed_at |-> NULL] >>
    /\ jobTargets = << {} >>
    /\ cv_files = <<>>
    /\ ai_parsed_data = <<>>
    /\ applications = <<>>
    /\ interviews = <<>>
    /\ notifications = <<>>
    /\ now = 0
    /\ last = NoCall
    /\ calls = [p \in Procs |-> IdleCall]
    /\ returned = [f \in CVFileIdInputs |-> {}]
    /\ reports = <<>>
    /\ result = <<>>

ApplicationNext ==
    \/ \E p \in Procs, u \in UserIdInputs :
          /\ uploadCV_Select(p, u)
          /\ Room(p, cv_files, "uploadCV", MaxCVFiles)
    \/ \E p \in Procs : uploadCV_Insert(p)
    \/ \E p \in Procs, j \in JobIdInputs, u \in UserIdInputs, f \in CVFileIdInputs :
          /\ createApplication_SelectJob(p, j, u, f, NULLTEXT)
          /\ ApplicationRoom(j, u, f, MaxApplications)
    \/ \E p \in Procs : createApplication_SelectCandidate(p)
    \/ \E p \in Procs : createApplication_SelectCVFile(p)
    \/ \E p \in Procs : createApplication_Insert(p)
    \/ Tick

\* applications: CV upload and application, with every user, job and CV
\* file id
SpecApplications == InitWithJob /\ [][ApplicationNext]_vars

\* a store in which the candidate has uploaded a CV and applied to the job
\* (uploadCV, createApplication)
InitWithApplication ==
    /\ users = SeedUsers
    /\ jobs = << [id |-> 1, status |-> "draft", created_by |-> 2, approved_by |-> NULL,
                  created_at |-> 0, updated_at |-> 0,
                  published_at |-> NULL, closed_at |-> NULL] >>
    /\ jobTargets = << {} >>
    /\ cv_files = << [id |-> 1, candidate_id |-> 1, uploaded_at |-> 0] >>
    /\ ai_parsed_data = <<>>
    /\ applications = << [id |-> 1, job_id |-> 1, candidate_id |-> 1, cv_file_id |-> 1,
                          ai_parsed_data_id |-> NULL, status |-> "pending",
                          ai_match_score |-> NULL, cover_letter |-> NULLTEXT,
                          notes |-> NULLTEXT, created_at |-> 0, updated_at |-> 0] >>
    /\ interviews = <<>>
    /\ notifications = <<>>
    /\ now = 0
    /\ last = NoCall
    /\ calls = [p \in Procs |-> IdleCall]
    /\ returned = [f \in CVFileIdInputs |-> {}]
    /\ reports = <<>>
    /\ result = <<>>

\* the handler called as a function, as its tests call it: no schema stands
\* between the caller and the handler, and the input object comes with a
\* notes property or without one
ApplicationHandlerNext ==
    \/ \E p \in Procs, s \in ApplicationStatus, t \in OptionalTextInputs :
          updateApplicationStatus_Select(p, 1, s, t)
    \/ \E p \in Procs : updateApplicationStatus_Select(p, MaxApplications + 1, "hired", UNDEFINED)
    \/ \E p \in Procs : updateApplicationStatus_Update(p)

\* status updates of an application, to every status, with notes absent,
\* null or a text
SpecApplicationHandler == InitWithApplication /\ [][ApplicationHandlerNext]_vars

SchedulingNext ==
    \/ \E p \in Procs, s \in {"pending", "shortlisted", "hired"} :
          updateApplicationStatus_Request(p, 1, s, NULLTEXT)
    \/ \E p \in Procs : updateApplicationStatus_Update(p)
    \/ \E a \in ApplicationIdInputs, u \in UserIdInputs, t \in TimeInputs, d \in DurationInputs,
          l \in LocationInputs, m \in MeetingLinkInputs :
          /\ scheduleInterview(a, u, t, d, l, m)
          /\ Len(interviews') <= MaxInterviews
          /\ Len(notifications') + InProgress("createNotification") <= MaxNotifications
    \/ \E p \in Procs :
          /\ createNotification_Select(p, 1, "application_status", "a")
          /\ Room(p, notifications, "createNotification", MaxNotifications)
    \/ \E p \in Procs : createNotification_Insert(p)
    \/ Tick

\* interview scheduling, for an application whose status is updated
\* meanwhile
SpecScheduling == InitWithApplication /\ [][SchedulingNext]_vars

\* a store in which an interview with the requester has been scheduled for
\* the application (scheduleInterview)
InitWithInterview ==
    /\ users = SeedUsers
    /\ jobs = << [id |-> 1, status |-> "draft", created_by |-> 2, approved_by |-> NULL,
                  created_at |-> 0, updated_at |-> 0,
                  published_at |-> NULL, closed_at |-> NULL] >>
    /\ jobTargets = << {} >>
    /\ cv_files = << [id |-> 1, candidate_id |-> 1, uploaded_at |-> 0] >>
    /\ ai_parsed_data = <<>>
    /\ applications = << [id |-> 1, job_id |-> 1, candidate_id |-> 1, cv_file_id |-> 1,
                          ai_parsed_data_id |-> NULL, status |-> "interview_scheduled",
                          ai_match_score |-> NULL, cover_letter |-> NULLTEXT,
                          notes |-> NULLTEXT, created_at |-> 0, updated_at |-> 0] >>
    /\ interviews = << [id |-> 1, application_id |-> 1, interviewer_id |-> 2,
                        scheduled_at |-> MaxTime, duration_minutes |-> 60,
                        location |-> NULLTEXT,
                        meeting_link |-> "a", status |-> "scheduled",
                        notes |-> NULLTEXT, feedback |-> NULLTEXT,
                        created_at |-> 0, updated_at |-> 0] >>
    /\ notifications = <<
          [id |-> 1, user_id |-> 1, type |-> "interview_invitation",
           title |-> "Interview Scheduled", email_sent |-> FALSE,
           read_at |-> NULL, created_at |-> 0],
          [id |-> 2, user_id |-> 2, type |-> "interview_invitation",
           title |-> "Interview Assignment", email_sent |-> FALSE,
           read_at |-> NULL, created_at |-> 0] >>
    /\ now = 0
    /\ last = NoCall
    /\ calls = [p \in Procs |-> IdleCall]
    /\ returned = [f \in CVFileIdInputs |-> {}]
    /\ reports = <<>>
    /\ result = <<>>

InterviewNext ==
    \/ \E p \in Procs, s \in {"completed", "cancelled", UNDEFINED},
          t \in OptionalTextInputs, f \in OptionalTextInputs :
          updateInterview_Start(p, 1, s, t, f)
    \/ \E p \in Procs : updateInterview_Start(p, MaxInterviews + 1, "completed", "a", "a")
    \/ \E p \in Procs : updateInterview_Update(p)
    \/ \E p \in Procs : updateInterview_Cascade(p)
    \/ Tick

\* interview updates, with notes and feedback absent, null or a text
SpecInterviews == InitWithInterview /\ [][InterviewNext]_vars

\* an interview updated while the application is: the two handlers of the
\* cascade, served together, for an application in any status
CascadeNext ==
    \/ \E p \in Procs, s \in ApplicationStatus :
          updateApplicationStatus_Request(p, 1, s, NULLTEXT)
    \/ \E p \in Procs : updateApplicationStatus_Update(p)
    \/ \E p \in Procs, s \in InterviewStatus \cup {UNDEFINED} :
          updateInterview_Start(p, 1, s, UNDEFINED, UNDEFINED)
    \/ \E p \in Procs : updateInterview_Update(p)
    \/ \E p \in Procs : updateInterview_Cascade(p)
    \/ Tick

SpecCascade == InitWithInterview /\ [][CascadeNext]_vars

\* the update handlers, each called on a row that exists and on one that
\* does not, with one payload
UpdateNext ==
    \/ \E p \in Procs, j \in {1, MaxJobs + 1} : updateJobStatus_Select(p, j, "closed", NULL)
    \/ \E p \in Procs : updateJobStatus_Update(p)
    \/ \E p \in Procs, a \in {1, MaxApplications + 1} :
          updateApplicationStatus_Request(p, a, "hired", NULLTEXT)
    \/ \E p \in Procs : updateApplicationStatus_Update(p)
    \/ \E p \in Procs, i \in {1, MaxInterviews + 1} :
          updateInterview_Start(p, i, "completed", UNDEFINED, UNDEFINED)
    \/ \E p \in Procs : updateInterview_Update(p)
    \/ \E p \in Procs : updateInterview_Cascade(p)
    \/ \E p \in Procs, n \in {1, MaxNotifications + 1} : markNotificationAsRead_Start(p, n)
    \/ \E p \in Procs : markNotificationAsRead_Update(p)
    \/ \E p \in Procs, n \in {2, MaxNotifications + 1} : sendEmailNotification_Select(p, n)
    \/ \E p \in Procs : sendEmailNotification_Update(p)
    \/ Tick

SpecUpdates == InitWithInterview /\ [][UpdateNext]_vars

\* requests served one at a time: a call starts when no call is in progress
SequentialCVNext ==
    \/ \E p \in Procs, u \in UserIdInputs :
          /\ Quiet
          /\ uploadCV_Select(p, u)
          /\ Room(p, cv_files, "uploadCV", MaxCVFiles)
    \/ \E p \in Procs : uploadCV_Insert(p)
    \/ \E p \in Procs, f \in CVFileIdInputs :
          /\ Quiet
          /\ processCVWithAI_SelectFile(p, f)
    \/ \E p \in Procs : processCVWithAI_SelectParsed(p)
    \/ \E p \in Procs : processCVWithAI_Insert(p)
    \/ \E p \in Procs : processCVWithAI_Simulated(p)
    \/ \E p \in Procs : processCVWithAI_Update(p)
    \/ Tick

SpecSequentialCV == Init /\ [][SequentialCVNext]_vars

\* requests served as they come: a call starts whatever the others are doing
ConcurrentCVNext ==
    \/ \E p \in Procs, u \in UserIdInputs :
          /\ uploadCV_Select(p, u)
          /\ Room(p, cv_files, "uploadCV", MaxCVFiles)
    \/ \E p \in Procs : uploadCV_Insert(p)
    \/ \E p \in Procs, f \in CVFileIdInputs : processCVWithAI_SelectFile(p, f)
    \/ \E p \in Procs : processCVWithAI_SelectParsed(p)
    \/ \E p \in Procs : processCVWithAI_Insert(p)
    \/ \E p \in Procs : processCVWithAI_Simulated(p)
    \/ \E p \in Procs : processCVWithAI_Update(p)
    \/ Tick

\* a call that has started runs to its end: the store answers, and the
\* simulated AI service returns after its delay
SpecConcurrentCV ==
    /\ Init /\ [][ConcurrentCVNext]_vars
    /\ \A p \in Procs : /\ WF_vars(uploadCV_Insert(p))
                        /\ WF_vars(processCVWithAI_SelectParsed(p))
                        /\ WF_vars(processCVWithAI_Insert(p))
                        /\ WF_vars(processCVWithAI_Simulated(p))
                        /\ WF_vars(processCVWithAI_Update(p))

\* the create handlers, from the empty store; notifications are created
\* until the table holds MaxCreated
CreateNext ==
    \/ \E u \in UserIdInputs :
          /\ createJob(u)
          /\ Len(jobs') <= MaxJobs
    \/ \E p \in Procs :
          /\ uploadCV_Select(p, 1)
          /\ Room(p, cv_files, "uploadCV", MaxCVFiles)
    \/ \E p \in Procs : uploadCV_Insert(p)
    \/ \E p \in Procs, f \in CVFileIdInputs, t \in TextInputs :
          /\ createApplication_SelectJob(p, 1, 1, f, t)
          /\ ApplicationRoom(1, 1, f, MaxApplications)
    \/ \E p \in Procs : createApplication_SelectCandidate(p)
    \/ \E p \in Procs : createApplication_SelectCVFile(p)
    \/ \E p \in Procs : createApplication_Insert(p)
    \/ \E p \in Procs, u \in UserIdInputs :
          /\ createNotification_Select(p, u, "job_approval", "a")
          /\ Room(p, notifications, "createNotification", MaxCreated)
    \/ \E p \in Procs : createNotification_Insert(p)
    \/ Tick

SpecCreates == Init /\ [][CreateNext]_vars

NotificationNext ==
    \/ \E p \in Procs, u \in UserIdInputs :
          /\ createNotification_Select(p, u, "application_status", "a")
          /\ Room(p, notifications, "createNotification", MaxInbox)
    \/ \E p \in Procs : createNotification_Insert(p)
    \/ \E p \in Procs, n \in 1..MaxInbox : markNotificationAsRead_Start(p, n)
    \/ \E p \in Procs : markNotificationAsRead_Update(p)
    \/ \E p \in Procs : sendEmailNotification_Select(p, 1)
    \/ \E p \in Procs : sendEmailNotification_Update(p)
    \/ \E u \in UserIdInputs, o \in UnreadOnlyInputs : getUserNotifications(u, o)
    \/ Tick

\* notifications: creation, e-mail, mark-read and listing, from the empty store
SpecNotifications == Init /\ [][NotificationNext]_vars

\* the notifications of an interview, e-mailed and marked read by requests
\* served together
NotificationRaceNext ==
    \/ \E p \in Procs, n \in {1, MaxNotifications + 1} : markNotificationAsRead_Start(p, n)
    \/ \E p \in Procs : markNotificationAsRead_Update(p)
    \/ \E p \in Procs, n \in {1, MaxNotifications + 1} : sendEmailNotification_Select(p, n)
    \/ \E p \in Procs : sendEmailNotification_Update(p)
    \/ Tick

SpecNotificationRace == InitWithInterview /\ [][NotificationRaceNext]_vars

\* match scores a row can hold (no handler writes ai_match_score: rows with
\* a score are inserted into the table directly, as the tests do)
ScoreInputs == {NULL, 85, 92}

\* an application of the candidate, with a score
ScoredApplication(id, job_id, score, created_at) ==
    [id |-> id, job_id |-> job_id, candidate_id |-> 1, cv_file_id |-> 1,
     ai_parsed_data_id |-> NULL, status |-> "pending",
     ai_match_score |-> score, cover_letter |-> NULLTEXT,
     notes |-> NULLTEXT, created_at |-> created_at, updated_at |-> created_at]

\* a store with two jobs, the first of the requester, and up to MaxScored
\* applications with any job, score and creation time
InitScored ==
    /\ users = SeedUsers
    /\ \E owner \in {1, 2} :
          jobs = << [id |-> 1, status |-> "published", created_by |-> 2, approved_by |-> NULL,
                     created_at |-> 0, updated_at |-> 0,
                     published_at |-> 0, closed_at |-> NULL],
                    [id |-> 2, status |-> "published", created_by |-> owner, approved_by |-> NULL,
                     created_at |-> 0, updated_at |-> 0,
                     published_at |-> 0, closed_at |-> NULL] >>
    /\ jobTargets = << {"published"}, {"published"} >>
    /\ cv_files = << [id |-> 1, candidate_id |-> 1, uploaded_at |-> 0] >>
    /\ ai_parsed_data = <<>>
    /\ \E n \in 0..MaxScored :
          \E j \in [1..n -> 1..2], sc \in [1..n -> ScoreInputs], t \in [1..n -> TimeInputs] :
              applications = [a \in 1..n |-> ScoredApplication(a, j[a], sc[a], t[a])]
    /\ interviews = <<>>
    /\ notifications = <<>>
    /\ reports = <<>>
    /\ now = MaxTime
    /\ last = NoCall
    /\ calls = [p \in Procs |-> IdleCall]
    /\ returned = [f \in CVFileIdInputs |-> {}]
    /\ result = <<>>

ListingNext ==
    \E j \in JobIdInputs : getApplicationsByJob(j)

\* the listing by job, over scored applications
SpecListing == InitScored /\ [][ListingNext]_vars

\* the same stores, the applications created together
InitScoredTogether ==
    /\ InitScored
    /\ \A a \in Ids(applications) : applications[a].created_at = 0

AverageNext ==
    \/ \E p \in Procs, r \in UserIdInputs : getRequesterDashboard_First(p, r)
    \/ \E p \in Procs : getRequesterDashboard_Query(p)

\* the requester's dashboard, over scored applications
SpecAverage == InitScoredTogether /\ [][AverageNext]_vars

\* the dashboards, over a pipeline whose rows change status while the
\* dashboards are read
DashboardNext ==
    \/ \E p \in Procs : updateJobStatus_Select(p, 1, "published", NULL)
    \/ \E p \in Procs : updateJobStatus_Update(p)
    \/ \E p \in Procs : updateApplicationStatus_Request(p, 1, "shortlisted", NULLTEXT)
    \/ \E p \in Procs : updateApplicationStatus_Update(p)
    \/ \E p \in Procs : updateInterview_Start(p, 1, "cancelled", UNDEFINED, UNDEFINED)
    \/ \E p \in Procs : updateInterview_Update(p)
    \/ \E p \in Procs, c \in {0, 1} : getCandidateDashboard_First(p, c)
    \/ \E p \in Procs : getCandidateDashboard_Query(p)
    \/ \E p \in Procs : getCandidateDashboard_Schedules(p)
    \/ \E p \in Procs : getRequesterDashboard_First(p, 2)
    \/ \E p \in Procs : getRequesterDashboard_Query(p)
    \/ \E p \in Procs : getAdminDashboard_First(p)
    \/ \E p \in Procs : getAdminDashboard_Query(p)
    \/ Tick

SpecDashboards == InitWithInterview /\ [][DashboardNext]_vars

\* the candidate's dashboard, opened while interviews are scheduled and
\* moved to another status, as time passes
UpcomingNext ==
    \/ \E t \in TimeInputs :
          /\ scheduleInterview(1, 2, t, 60, NULLTEXT, NULLTEXT)
          /\ Len(interviews') <= MaxInterviews
    \/ \E i \in InterviewIdInputs, s \in InterviewStatus \ {"scheduled"} :
          updateInterview_Start(2, i, s, UNDEFINED, UNDEFINED)
    \/ updateInterview_Update(2)
    \/ updateInterview_Cascade(2)
    \/ getCandidateDashboard_First(1, 1)
    \/ getCandidateDashboard_Query(1)
    \/ getCandidateDashboard_Schedules(1)
    \/ Tick

SpecUpcoming == InitWithApplication /\ [][UpcomingNext]_vars

\* a store in which the candidate has applied to the requester's job at
\* some time and an interview has been scheduled at that time or later
\* (createApplication, scheduleInterview)
InitWithInterviewAt ==
    /\ users = SeedUsers
    /\ jobs = << [id |-> 1, status |-> "published", created_by |-> 2, approved_by |-> NULL,
                  created_at |-> 0, updated_at |-> 0,
                  published_at |-> 0, closed_at |-> NULL] >>
    /\ jobTargets = << {"published"} >>
    /\ cv_files = << [id |-> 1, candidate_id |-> 1, uploaded_at |-> 0] >>
    /\ ai_parsed_data = <<>>
    /\ \E t1 \in TimeInputs, t2 \in TimeInputs :
          /\ t1 <= t2
          /\ applications = << [id |-> 1, job_id |-> 1, candidate_id |-> 1, cv_file_id |-> 1,
                                ai_parsed_data_id |-> NULL, status |-> "interview_scheduled",
                                ai_match_score |-> NULL, cover_letter |-> NULLTEXT,
                                notes |-> NULLTEXT, created_at |-> t1, updated_at |-> t2] >>
          /\ interviews = << [id |-> 1, application_id |-> 1, interviewer_id |-> 2,
                              scheduled_at |-> MaxTime, duration_minutes |-> 60,
                        location |-> NULLTEXT,
                              meeting_link |-> "a", status |-> "scheduled",
                              notes |-> NULLTEXT, feedback |-> NULLTEXT,
                              created_at |-> t2, updated_at |-> t2] >>
          /\ notifications = <<
                [id |-> 1, user_id |-> 1, type |-> "interview_invitation",
                 title |-> "Interview Scheduled", email_sent |-> FALSE,
                 read_at |-> NULL, created_at |-> t2],
                [id |-> 2, user_id |-> 2, type |-> "interview_invitation",
                 title |-> "Interview Assignment", email_sent |-> FALSE,
                 read_at |-> NULL, created_at |-> t2] >>
          /\ now = t2
    /\ reports = <<>>
    /\ last = NoCall
    /\ calls = [p \in Procs |-> IdleCall]
    /\ returned = [f \in CVFileIdInputs |-> {}]
    /\ result = <<>>

ReportNext ==
    \/ \E p \in Procs, s \in {"offer_made", "offer_accepted"} :
          updateApplicationStatus_Request(p, 1, s, NULLTEXT)
    \/ \E p \in Procs : updateApplicationStatus_Update(p)
    \/ \E p \in Procs, r \in {0, 2}, we \in TimeInputs :
          /\ generateWeeklyReport_First(p, r, 0, we)
          /\ Room(p, reports, "generateWeeklyReport", MaxReports)
    \/ \E p \in Procs : generateWeeklyReport_Query(p)
    \/ \E p \in Procs : generateWeeklyReport_Insert(p)
    \/ \E r \in {0, 2} : getReportsByRequester(r)
    \/ Tick

\* weekly reports over a pipeline whose application is made an offer,
\* accepted or not, while the reports are generated and listed
SpecReports == InitWithInterviewAt /\ [][ReportNext]_vars

\* the store after construction: every table is empty
InitEmpty ==
    /\ users = <<>>
    /\ jobs = <<>>
    /\ jobTargets = <<>>
    /\ cv_files = <<>>
    /\ ai_parsed_data = <<>>
    /\ applications = <<>>
    /\ interviews = <<>>
    /\ notifications = <<>>
    /\ reports = <<>>
    /\ now = 0
    /\ last = NoCall
    /\ calls = [p \in Procs |-> IdleCall]
    /\ returned = [f \in CVFileIdInputs |-> {}]
    /\ result = <<>>

UserNext ==
    \/ \E e \in EmailInputs, r \in UserRole :
          /\ createUser(e, r)
          /\ Len(users') <= MaxUserId
    \/ \E p \in Procs, u \in UserIdInputs :
          /\ uploadCV_Select(p, u)
          /\ Room(p, cv_files, "uploadCV", MaxCVFiles)
    \/ \E p \in Procs : uploadCV_Insert(p)
    \/ Tick

\* user accounts, and the upload only a candidate can make, from the empty store
SpecUsers == InitEmpty /\ [][UserNext]_vars

\* the handlers that insert a row and return it, from the empty store, each
\* until its table holds two rows; the clock stands still
CreateTwiceNext ==
    \/ /\ createUser("c@x", "candidate")
       /\ Len(users') <= MaxUserId
    \/ /\ createUser("r@x", "requester")
       /\ Len(users') <= MaxUserId
    \/ /\ createJob(2)
       /\ Len(jobs') <= MaxRows
    \/ \E p \in Procs :
          /\ uploadCV_Select(p, 1)
          /\ Room(p, cv_files, "uploadCV", MaxRows)
    \/ \E p \in Procs : uploadCV_Insert(p)
    \/ \E p \in Procs, f \in {1, MaxRows + 1} :
          /\ createApplication_SelectJob(p, 1, 1, f, NULLTEXT)
          /\ ApplicationRoom(1, 1, f, MaxRows)
    \/ \E p \in Procs : createApplication_SelectCandidate(p)
    \/ \E p \in Procs : createApplication_SelectCVFile(p)
    \/ \E p \in Procs : createApplication_Insert(p)
    \/ \E d \in DurationInputs, l \in LocationInputs, m \in MeetingLinkInputs :
          /\ scheduleInterview(1, 2, 0, d, l, m)
          /\ Len(interviews') <= MaxRows
          /\ Len(notifications') + InProgress("createNotification") <= MaxNotifications
    \/ \E p \in Procs :
          /\ createNotification_Select(p, 1, "job_approval", "a")
          /\ Room(p, notifications, "createNotification", MaxInbox)
    \/ \E p \in Procs : createNotification_Insert(p)
    \/ \E p \in Procs :
          /\ generateWeeklyReport_First(p, 2, 0, MaxTime)
          /\ Room(p, reports, "generateWeeklyReport", MaxReports)
    \/ \E p \in Procs : generateWeeklyReport_Query(p)
    \/ \E p \in Procs : generateWeeklyReport_Insert(p)

SpecCreateTwice == InitEmpty /\ [][CreateTwiceNext]_vars

\* every handler that writes, from the empty store, each on the first row
\* of its table (there or not) and with one payload; the clock stands still.
\* The requests that create a row by a chain of lookups and an insert come
\* one after the other (process 1): they overlap one another in
\* SpecCreateTwice and SpecConcurrentCV.  The requests that update a row
\* overlap them and one another.
LifecycleNext ==
    \/ /\ createUser("c@x", "candidate")
       /\ Len(users') <= MaxUserId
    \/ /\ createUser("r@x", "requester")
       /\ Len(users') <= MaxUserId
    \/ /\ createJob(2)
       /\ Len(jobs') <= MaxJobs
    \/ \E p \in Procs : updateJobStatus_Select(p, 1, "published", NULL)
    \/ \E p \in Procs : updateJobStatus_Update(p)
    \/ /\ uploadCV_Select(1, 1)
       /\ Room(1, cv_files, "uploadCV", MaxCVFiles)
    \/ uploadCV_Insert(1)
    \/ processCVWithAI_SelectFile(1, 1)
    \/ processCVWithAI_SelectParsed(1)
    \/ processCVWithAI_Insert(1)
    \/ processCVWithAI_Simulated(1)
    \/ processCVWithAI_Update(1)
    \/ /\ createApplication_SelectJob(1, 1, 1, 1, NULLTEXT)
       /\ ApplicationRoom(1, 1, 1, MaxApplications)
    \/ createApplication_SelectCandidate(1)
    \/ createApplication_SelectCVFile(1)
    \/ createApplication_Insert(1)
    \/ \E p \in Procs : updateApplicationStatus_Request(p, 1, "shortlisted", NULLTEXT)
    \/ \E p \in Procs : updateApplicationStatus_Update(p)
    \/ \E d \in DurationInputs, l \in LocationInputs, m \in MeetingLinkInputs :
          /\ scheduleInterview(1, 2, 0, d, l, m)
          /\ Len(interviews') <= MaxInterviews
    \/ \E p \in Procs : updateInterview_Start(p, 1, "completed", UNDEFINED, "a")
    \/ \E p \in Procs : updateInterview_Update(p)
    \/ \E p \in Procs : updateInterview_Cascade(p)
    \/ /\ createNotification_Select(1, 1, "job_approval", "a")
       /\ Room(1, notifications, "createNotification", MaxCreated)
    \/ createNotification_Insert(1)
    \/ \E p \in Procs : markNotificationAsRead_Start(p, 1)
    \/ \E p \in Procs : markNotificationAsRead_Update(p)
    \/ \E p \in Procs : sendEmailNotification_Select(p, 1)
    \/ \E p \in Procs : sendEmailNotification_Update(p)
    \/ /\ generateWeeklyReport_First(1, 2, 0, MaxTime)
       /\ Room(1, reports, "generateWeeklyReport", MaxCreated)
    \/ generateWeeklyReport_Query(1)
    \/ generateWeeklyReport_Insert(1)

SpecLifecycle == InitEmpty /\ [][LifecycleNext]_vars

(***************************************************************************)
(* Properties of the job workflow                                          *)
(***************************************************************************)
C5_TimestampsIffTargeted ==
    \A j \in Ids(jobs) :
        /\ (jobs[j].published_at # NULL) <=> ("published" \in jobTargets[j])
        /\ (jobs[j].closed_at # NULL) <=> ("closed" \in jobTargets[j])

C5_OtherTargetsKeepTimestamps ==
    \A p \in Procs :
        (updateJobStatus_Update(p) /\ calls[p].in.status \notin {"published", "closed"}) =>
            /\ jobs'[calls[p].in.id].published_at = jobs[calls[p].in.id].published_at
            /\ jobs'[calls[p].in.id].closed_at = jobs[calls[p].in.id].closed_at

\* C5: after any sequence of createJob and updateJobStatus calls a job's
\* published_at is non-null iff some updateJobStatus call on it had target
\* "published", its closed_at is non-null iff some call had target "closed"
\* (a call has had its target when its update has run), and an update with
\* any other target leaves both timestamps unchanged.
C5_JobTimestamps ==
    []C5_TimestampsIffTargeted /\ [][C5_OtherTargetsKeepTimestamps]_vars

\* a job was closed while a call that publishes it waited for its update: it
\* is published, and was closed after it was published
C5_Witness ==
    /\ last.op = "updateJobStatus" /\ Ok(last) /\ last.status = "published"
    /\ jobs[last.id].status = "published"
    /\ jobs[last.id].closed_at # NULL
    /\ jobs[last.id].published_at < jobs[last.id].closed_at

\* position of a status in draft -> pending_approval -> approved -> published -> closed
StatusRank(s) ==
    CASE s = "draft" -> 0
      [] s = "pending_approval" -> 1
      [] s = "approved" -> 2
      [] s = "published" -> 3
      [] s = "closed" -> 4

\* C6 (as claimed): a job's status only moves forward along
\* draft -> pending_approval -> approved -> published -> closed.
C6_StatusOnlyForward ==
    [][\A j \in Ids(jobs) : StatusRank(jobs'[j].status) >= StatusRank(jobs[j].status)]_vars

\* C6 (amended): updateJobStatus on an existing job sets its status to the
\* target whatever the current status is, backward moves included.
C6_StatusBecomesTarget ==
    [][\A p \in Procs :
          updateJobStatus_Update(p) =>
              jobs'[calls[p].in.id].status = calls[p].in.status]_vars

\* a job that had been closed is back in draft
C6_Witness ==
    /\ last.op = "updateJobStatus" /\ Ok(last) /\ last.status = "draft"
    /\ jobs[last.id].status = "draft"
    /\ jobs[last.id].closed_at # NULL

\* C7 (as claimed): updateJobStatus sets approved_by to the supplied approver
\* id when the target is "approved" and the id is not null, and leaves
\* approved_by as it was in every other call.
C7_ApprovedByFrame ==
    [][\A p \in Procs :
          updateJobStatus_Update(p) =>
              jobs'[calls[p].in.id].approved_by =
                  IF calls[p].in.status = "approved" /\ calls[p].in.id2 # NULL
                  THEN calls[p].in.id2 ELSE jobs[calls[p].in.id].approved_by]_vars

Changed(old, new, id) == {c \in DOMAIN old[id] : new[id][c] # old[id][c]}

\* the rows of old are the first rows of new, unchanged
Extends(old, new) ==
    /\ Len(new) >= Len(old)
    /\ \A i \in Ids(old) : new[i] = old[i]

\* this step is the call scheduleInterview(a, u, ...)
ScheduleInterviewStep(a, u) ==
    \E t \in TimeInputs, d \in DurationInputs, l \in LocationInputs, m \in MeetingLinkInputs :
        scheduleInterview(a, u, t, d, l, m)

C1_ScheduleEffect(a, u) ==
    LET i == Len(interviews) + 1
        n == Len(notifications)
    IN /\ Len(interviews') = i /\ Extends(interviews, interviews')
       /\ interviews'[i].status = "scheduled"
       /\ interviews'[i].application_id = a /\ interviews'[i].interviewer_id = u
       /\ Len(applications') = Len(applications)
       /\ \A b \in Ids(applications) \ {a} : applications'[b] = applications[b]
       /\ applications'[a].status = "interview_scheduled"
       /\ Changed(applications, applications', a) \subseteq {"status", "updated_at"}
       /\ Len(notifications') = n + 2 /\ Extends(notifications, notifications')
       /\ notifications'[n + 1].user_id = applications[a].candidate_id
       /\ notifications'[n + 2].user_id = u
       /\ \A k \in {n + 1, n + 2} :
             /\ notifications'[k].type = "interview_invitation"
             /\ notifications'[k].email_sent = FALSE
       /\ UNCHANGED <<users, reports, result, jobs, cv_files, ai_parsed_data>>

\* C1: a scheduleInterview call whose application_id and interviewer_id both
\* reference existing rows changes the store by exactly one new interview row
\* with status "scheduled", the parent application's status set to
\* "interview_scheduled" (and its updated_at), and two new notifications, one
\* for the candidate and one for the interviewer, both interview_invitation
\* with email_sent = false.
C1_ScheduleInterviewEffect ==
    [][(/\ last'.op = "scheduleInterview"
        /\ Exists(applications, last'.id) /\ Exists(users, last'.id2)
        /\ ScheduleInterviewStep(last'.id, last'.id2))
       => C1_ScheduleEffect(last'.id, last'.id2)]_vars

\* an interview was scheduled with an interviewer who is not the candidate
C1_Witness ==
    /\ last.op = "scheduleInterview" /\ Ok(last)
    /\ interviews[last.ret].interviewer_id # applications[last.id].candidate_id
    /\ Len(notifications) = 3

NotFound(e) ==
    e \in {"not_found", "not_found:application", "not_found:interviewer",
           "not_found:interview", "not_found:notification", "not_found:job",
           "not_found:candidate", "not_found:cv_file", "not_found:user"}

\* C2: a scheduleInterview call whose application_id or interviewer_id
\* references no existing row fails with a not-found error and leaves the
\* interviews, applications and notifications tables as they were.
C2_ScheduleInterviewNotFound ==
    [][(/\ last'.op = "scheduleInterview"
        /\ (~Exists(applications, last'.id) \/ ~Exists(users, last'.id2))
        /\ ScheduleInterviewStep(last'.id, last'.id2))
       => /\ NotFound(last'.err)
          /\ UNCHANGED <<interviews, applications, notifications>>]_vars

\* a call for an existing application and a missing interviewer has failed
C2_Witness ==
    /\ last.op = "scheduleInterview" /\ last.err = "not_found:interviewer"
    /\ Exists(applications, last.id) /\ ~Exists(users, last.id2)

\* the update of an existing interview leaves the application alone; the
\* call goes on to the update of the parent application exactly when its
\* status is "completed", and returns otherwise
C3_CascadeIffCompleted ==
    \A p \in Procs :
        (updateInterview_Update(p) /\ Exists(interviews, calls[p].in.id)) =>
            /\ UNCHANGED applications
            /\ IF calls[p].in.status = "completed"
               THEN /\ calls'[p].pc = "updateInterview:cascade"
                    /\ calls'[p].row = interviews[calls[p].in.id].application_id
               ELSE /\ calls'[p].pc = "idle"
                    /\ Ok(last') /\ last'.op = "updateInterview"

\* the second update leaves the parent application "interviewed"
C3_CascadeSetsInterviewed ==
    \A p \in Procs :
        updateInterview_Cascade(p) =>
            /\ applications'[calls[p].row].status = "interviewed"
            /\ Ok(last') /\ last'.op = "updateInterview" /\ last'.status = "completed"
            /\ interviews[last'.id].application_id = calls[p].row

\* C3: updateInterview on an existing interview with status "completed"
\* leaves the parent application with status "interviewed" whatever it was
\* before; with any other status, or none, the application's status is
\* unchanged.
C3_InterviewCascade ==
    [][C3_CascadeIffCompleted /\ C3_CascadeSetsInterviewed]_vars

\* an interview was completed and its application is "interviewed", by an
\* update later than that of the interview
C3_Witness ==
    /\ last.op = "updateInterview" /\ Ok(last) /\ last.status = "completed"
    /\ applications[interviews[last.id].application_id].status = "interviewed"
    /\ applications[interviews[last.id].application_id].updated_at
          > interviews[last.id].updated_at

\* the value a column holds after an update whose input gives it, or not
C24_Updated(given, old) == IF given = UNDEFINED THEN old ELSE given

\* C24: updateInterview on an existing interview changes, among status,
\* notes and feedback, exactly the fields present in the input: a field that
\* is omitted keeps its prior value, a notes or feedback field given as null
\* becomes null, and application_id, interviewer_id, scheduled_at,
\* duration_minutes, location and meeting_link are never changed (nor is any
\* other interview, nor any interview by another step of the call).
C24_InterviewUpdateFrame ==
    [][\A p \in Procs :
          /\ (updateInterview_Update(p) /\ Exists(interviews, calls[p].in.id))
             => LET i == calls[p].in.id
                IN /\ interviews'[i].status =
                         C24_Updated(calls[p].in.status, interviews[i].status)
                   /\ interviews'[i].notes =
                         C24_Updated(calls[p].in.notes, interviews[i].notes)
                   /\ interviews'[i].feedback =
                         C24_Updated(calls[p].x.feedback, interviews[i].feedback)
                   /\ Changed(interviews, interviews', i)
                         \subseteq {"status", "notes", "feedback", "updated_at"}
                   /\ \A c \in {"application_id", "interviewer_id", "scheduled_at",
                                "duration_minutes", "location", "meeting_link"} :
                         interviews'[i][c] = interviews[i][c]
                   /\ Len(interviews') = Len(interviews)
                   /\ \A k \in Ids(interviews) \ {i} : interviews'[k] = interviews[k]
          /\ (calls[p].pc = "idle" /\ calls'[p].in.op = "updateInterview")
             => UNCHANGED interviews
          /\ updateInterview_Cascade(p) => UNCHANGED interviews]_vars

\* a call without status has cleared the notes of a completed interview and
\* left its status and its feedback as they were
C24_Witness ==
    /\ last.op = "updateInterview" /\ Ok(last)
    /\ last.status = UNDEFINED /\ last.notes = NULLTEXT
    /\ interviews[last.id].status = "completed"
    /\ interviews[last.id].notes = NULLTEXT
    /\ interviews[last.id].feedback = "a"
    /\ interviews[last.id].updated_at > interviews[last.id].created_at

(***************************************************************************)
(* Properties of applications                                              *)
(***************************************************************************)
\* C8: updateApplicationStatus on an existing application sets status to the
\* target for every (current, target) pair; notes = null clears the stored
\* notes, notes omitted keeps them; job_id, candidate_id, cv_file_id,
\* cover_letter, ai_match_score and created_at are never changed.
C8_ApplicationStatusFrame ==
    [][\A p \in Procs :
          /\ updateApplicationStatus_Update(p)
             => LET a == calls[p].in.id
                    notes == calls[p].in.notes
                IN /\ applications'[a].status = calls[p].in.status
                   /\ notes = NULLTEXT => applications'[a].notes = NULLTEXT
                   /\ notes = UNDEFINED => applications'[a].notes = applications[a].notes
                   /\ Changed(applications, applications', a)
                         \subseteq {"status", "notes", "updated_at"}
                   /\ \A b \in Ids(applications) \ {a} : applications'[b] = applications[b]
          /\ (calls[p].pc = "idle" /\ calls'[p].in.op = "updateApplicationStatus")
             => UNCHANGED applications]_vars

\* notes written earlier have survived an update that omitted notes
C8_Witness ==
    /\ last.op = "updateApplicationStatus" /\ Ok(last) /\ last.notes = UNDEFINED
    /\ applications[last.id].notes = "a"
    /\ applications[last.id].status = "hired"

C10_CVBelongsToCandidate ==
    \A a \in Ids(applications) :
        /\ Exists(cv_files, applications[a].cv_file_id)
        /\ cv_files[applications[a].cv_file_id].candidate_id = applications[a].candidate_id

C10_InvalidInput(job_id, candidate_id, cv_file_id) ==
    \/ ~Exists(jobs, job_id)
    \/ ~Exists(users, candidate_id)
    \/ ~Exists(cv_files, cv_file_id)
    \/ cv_files[cv_file_id].candidate_id # candidate_id

\* a lookup of createApplication that finds no row, or a CV file of somebody
\* else, ends the call with an error; the insert runs for a valid input only
C10_LookupsRefuse ==
    \A p \in Procs :
        /\ (/\ last'.op = "createApplication" /\ ~Exists(jobs, last'.id)
            /\ createApplication_SelectJob(p, last'.id, last'.id2, last'.id3, last'.notes))
           => (last'.err = "not_found:job" /\ UNCHANGED tables)
        /\ (createApplication_SelectCandidate(p) /\ ~Exists(users, calls[p].in.id2))
           => (last'.err = "not_found:candidate" /\ calls'[p].pc = "idle" /\ UNCHANGED tables)
        /\ (/\ createApplication_SelectCVFile(p)
            /\ \/ ~Exists(cv_files, calls[p].in.id3)
               \/ cv_files[calls[p].in.id3].candidate_id # calls[p].in.id2)
           => (Failed(last') /\ calls'[p].pc = "idle" /\ UNCHANGED tables)
        /\ createApplication_Insert(p)
           => ~C10_InvalidInput(calls[p].in.id, calls[p].in.id2, calls[p].in.id3)

\* C10: createApplication fails, inserting no row, when job_id, candidate_id
\* or cv_file_id references no existing row or the CV file belongs to another
\* candidate; so in every reachable state each application's cv_file_id
\* references a CV file of the application's candidate.
C10_CreateApplicationValidates ==
    /\ []C10_CVBelongsToCandidate
    /\ [][C10_LookupsRefuse]_vars

\* an application with another user's CV file was refused
C10_Witness ==
    /\ last.op = "createApplication" /\ last.err = "cv_file_mismatch"
    /\ Exists(users, last.id2) /\ Exists(cv_files, last.id3)
    /\ cv_files[last.id3].candidate_id # last.id2

C11_CVFileOfCandidate ==
    \A f \in Ids(cv_files) :
        /\ Exists(users, cv_files[f].candidate_id)
        /\ users[cv_files[f].candidate_id].role = "candidate"

\* C11: uploadCV fails, inserting no row, when candidate_id references no
\* existing user or a user whose role is not "candidate"; so in every
\* reachable state each cv_files row's candidate_id references an existing
\* user with role "candidate".
C11_UploadCVValidates ==
    /\ []C11_CVFileOfCandidate
    /\ [][\A p \in Procs :
             /\ (/\ last'.op = "uploadCV"
                 /\ (~Exists(users, last'.id) \/ users[last'.id].role # "candidate")
                 /\ uploadCV_Select(p, last'.id))
                => (Failed(last') /\ UNCHANGED tables)
             /\ uploadCV_Insert(p)
                => /\ Exists(users, calls[p].in.id)
                   /\ users[calls[p].in.id].role = "candidate"]_vars

\* the requester's upload was refused after the candidate's was stored
C11_Witness ==
    /\ last.op = "uploadCV" /\ last.err = "not_a_candidate"
    /\ users[last.id].role = "requester"
    /\ Len(cv_files) = 1

(***************************************************************************)
(* Initial state of created rows                                           *)
(***************************************************************************)
C12_JobStartsAsDraft ==
    (/\ last'.op = "createJob" /\ createJob(last'.id2))
    => LET j == jobs'[last'.ret]
       IN /\ Len(jobs') = Len(jobs) + 1 /\ last'.ret = Len(jobs')
          /\ j.status = "draft"
          /\ j.approved_by = NULL /\ j.published_at = NULL /\ j.closed_at = NULL

C12_ApplicationStartsPending ==
    \A p \in Procs :
        createApplication_Insert(p)
        => LET a == applications'[last'.ret]
           IN /\ Len(applications') = Len(applications) + 1 /\ last'.ret = Len(applications')
              /\ last'.op = "createApplication" /\ Ok(last')
              /\ a.status = "pending"
              /\ a.ai_parsed_data_id = NULL /\ a.ai_match_score = NULL
              /\ a.notes = NULLTEXT

C12_NotificationStartsUnsent ==
    \A p \in Procs :
        createNotification_Insert(p)
        => LET n == notifications'[last'.ret]
           IN /\ Len(notifications') = Len(notifications) + 1 /\ last'.ret = Len(notifications')
              /\ last'.op = "createNotification" /\ Ok(last')
              /\ n.email_sent = FALSE
              /\ n.read_at = NULL

\* C12: every row produced by a create handler starts in its entity's
\* initial state: createJob yields status "draft" with approved_by,
\* published_at and closed_at null; createApplication yields status "pending"
\* with ai_parsed_data_id, ai_match_score and notes null; createNotification
\* yields email_sent = false and read_at = null.
C12_CreatedRowsInitial ==
    [][/\ C12_JobStartsAsDraft
       /\ C12_ApplicationStartsPending
       /\ C12_NotificationStartsUnsent]_vars

\* a job, an application to it and a notification have been created
C12_Witness ==
    /\ last.op = "createNotification" /\ Ok(last)
    /\ Len(jobs) = 1 /\ Len(applications) = 1
    /\ applications[1].cover_letter = "a"

(***************************************************************************)
(* Properties of notifications                                             *)
(***************************************************************************)
\* the lookup of an existing notification returns true when it is sent
\* already, and goes on to the update otherwise; the update returns true
C13_SendReturnsTrue ==
    \A p \in Procs :
        /\ \A n \in Ids(notifications) :
              sendEmailNotification_Select(p, n) =>
                  /\ UNCHANGED tables
                  /\ IF notifications[n].email_sent
                     THEN /\ calls'[p].pc = "idle"
                          /\ Ok(last') /\ last'.op = "sendEmailNotification"
                          /\ last'.id = n /\ last'.ret = 1
                     ELSE /\ calls'[p].pc = "sendEmailNotification:update"
                          /\ calls'[p].in.id = n
        /\ sendEmailNotification_Update(p)
           => /\ Ok(last') /\ last'.op = "sendEmailNotification" /\ last'.ret = 1
              /\ notifications'[calls[p].in.id].email_sent
              /\ notifications[calls[p].in.id].email_sent => UNCHANGED tables

C13_SentStaysSent ==
    \A n \in Ids(notifications) :
        notifications[n].email_sent =>
            (Exists(notifications', n) /\ notifications'[n].email_sent)

\* C13: for an existing notification every sendEmailNotification call
\* returns true; after the first call email_sent is true and stays true
\* whatever is called later, and a call on a notification already sent
\* changes no table.
C13_SendEmailIdempotent ==
    [][C13_SendReturnsTrue /\ C13_SentStaysSent]_vars

\* a notification has been sent by one call while another, which had found
\* it unsent, waits for its update
C13_Witness ==
    /\ last.op = "sendEmailNotification" /\ Ok(last) /\ last.ret = 1
    /\ notifications[last.id].email_sent
    /\ \E p \in Procs : /\ calls[p].pc = "sendEmailNotification:update"
                        /\ calls[p].in.id = last.id

\* the call reads the clock when it starts; its update sets read_at to that
\* reading and changes nothing else
C14_OnlyReadAtChanges ==
    \A p \in Procs :
        /\ (calls[p].pc = "idle" /\ calls'[p].in.op = "markNotificationAsRead")
           => /\ calls'[p].vals.read_at = now
              /\ UNCHANGED tables
        /\ (markNotificationAsRead_Update(p) /\ Exists(notifications, calls[p].in.id))
           => LET n == calls[p].in.id
              IN /\ notifications'[n].read_at = calls[p].vals.read_at
                 /\ notifications'[n].read_at # NULL
                 /\ notifications'[n].read_at <= now
                 /\ Changed(notifications, notifications', n) \subseteq {"read_at"}
                 /\ Len(notifications') = Len(notifications)
                 /\ \A k \in Ids(notifications) \ {n} : notifications'[k] = notifications[k]

C14_ReadStaysRead ==
    \A n \in Ids(notifications) :
        notifications[n].read_at # NULL =>
            (Exists(notifications', n) /\ notifications'[n].read_at # NULL)

\* C14: markNotificationAsRead on an existing notification sets read_at to
\* the time of the call, also when it is already non-null, so that a second
\* call leaves read_at strictly later than the first did; read_at never
\* becomes null again, and no other field changes.
C14_ReadAtStrictlyLater ==
    [][/\ C14_OnlyReadAtChanges
       /\ C14_ReadStaysRead
       /\ \A p \in Procs :
             (/\ markNotificationAsRead_Update(p)
              /\ Exists(notifications, calls[p].in.id)
              /\ notifications[calls[p].in.id].read_at # NULL)
             => notifications'[calls[p].in.id].read_at
                   > notifications[calls[p].in.id].read_at]_vars

C15_ListingExact ==
    (/\ last'.op = "getUserNotifications"
     /\ getUserNotifications(last'.id, last'.status))
    => /\ {result'[i].id : i \in DOMAIN result'} =
             {n \in Ids(notifications) :
                 /\ notifications[n].user_id = last'.id
                 /\ last'.status = "true" => notifications[n].read_at = NULL}
       /\ \A i \in DOMAIN result' : result'[i] = notifications[result'[i].id]
       /\ \A i, j \in DOMAIN result' :
             i < j => /\ result'[i].id # result'[j].id
                      /\ result'[i].created_at >= result'[j].created_at
       /\ UNCHANGED tables

C15_ReadNeverListedUnread ==
    \A n \in 1..MaxNotifications :
        []((last.op = "markNotificationAsRead" /\ Ok(last) /\ last.id = n)
            => []((last.op = "getUserNotifications" /\ last.status = "true")
                   => (\A i \in DOMAIN result : result[i].id # n)))

\* C15: getUserNotifications(user_id, unread_only) returns exactly the
\* notifications whose user_id matches and, when unread_only is true, whose
\* read_at is null, newest first by created_at; so a notification on which
\* markNotificationAsRead has succeeded is in no later unread_only = true
\* result.
C15_UserNotifications ==
    /\ [][C15_ListingExact]_vars
    /\ C15_ReadNeverListedUnread

\* an unread-only listing has left out the notification the user has read
\* and kept the newer one
C15_Witness ==
    /\ last.op = "getUserNotifications" /\ last.status = "true"
    /\ Len(result) = 1 /\ result[1].created_at > 0
    /\ \E n \in Ids(notifications) :
          notifications[n].user_id = last.id /\ notifications[n].read_at # NULL

(***************************************************************************)
(* Properties of the listings and the dashboards                           *)
(***************************************************************************)
C16_SortedByScore ==
    (/\ last'.op = "getApplicationsByJob" /\ getApplicationsByJob(last'.id))
    => /\ {result'[i].id : i \in DOMAIN result'} =
             {a \in Ids(applications) : applications[a].job_id = last'.id}
       /\ \A i \in DOMAIN result' : result'[i] = applications[result'[i].id]
       /\ \A i, j \in DOMAIN result' :
             i < j =>
                LET x == result'[i].ai_match_score
                    y == result'[j].ai_match_score
                IN /\ result'[i].id # result'[j].id
                   /\ x = NULL => y = NULL
                   /\ (x # NULL /\ y # NULL) => x >= y
                   /\ x = y => result'[i].created_at >= result'[j].created_at

\* C16: getApplicationsByJob(job_id) returns exactly the applications with
\* that job_id, ordered by ai_match_score descending with every null score
\* after every non-null score, ties (equal scores, or both null) broken by
\* created_at descending.
C16_ApplicationsByJob ==
    [][C16_SortedByScore]_vars

\* 92 before 85 before null, the application without a score being the
\* newest and the one with the best score not the first inserted
C16_Witness ==
    /\ last.op = "getApplicationsByJob" /\ Len(result) = 3
    /\ result[1].ai_match_score = 92 /\ result[2].ai_match_score = 85
    /\ result[3].ai_match_score = NULL
    /\ result[3].created_at > result[1].created_at
    /\ result[1].id # 1

\* the sixth statement of getRequesterDashboard reads the mean, and the call
\* returns what that statement has read
C17_NearestInteger ==
    \A p \in Procs :
        /\ (getRequesterDashboard_Query(p) /\ calls[p].row = 6)
           => LET scored == {a \in Ids(applications) :
                                /\ Exists(jobs, applications[a].job_id)
                                /\ jobs[applications[a].job_id].created_by = calls[p].in.id
                                /\ applications[a].ai_match_score # NULL}
                  n == Cardinality(scored)
                  sum == SumScores([i \in 1..Len(applications) |->
                                       IF i \in scored THEN applications[i]
                                       ELSE [ai_match_score |-> 0]])
                  r == calls'[p].vals.averageMatchScore
              IN /\ n = 0 => r = 0
                 \* r - 1/2 <= sum / n < r + 1/2
                 /\ n > 0 => (2 * n * r - n <= 2 * sum /\ 2 * sum < 2 * n * r + n)
        /\ (getRequesterDashboard_Query(p) /\ calls[p].row = RequesterQueries)
           => /\ last'.op = "getRequesterDashboard"
              /\ result'.averageMatchScore = calls[p].vals.averageMatchScore

\* C17: getRequesterDashboard's averageMatchScore is the mean of the non-null
\* ai_match_score values of the applications to the requester's jobs,
\* rounded to the nearest integer with halves rounded up (85 and 92 give
\* 89), and 0 when there is no such score.
C17_AverageMatchScore ==
    [][C17_NearestInteger]_vars

\* 85 and 92 for the requester's jobs, a third application without a score
\* and one job of somebody else: 89
C17_Witness ==
    /\ last.op = "getRequesterDashboard" /\ last.id = 2
    /\ result.averageMatchScore = 89
    /\ result.totalApplicationsReceived = 3
    /\ \E a, b \in Ids(applications) :
          applications[a].ai_match_score = 85 /\ applications[b].ai_match_score = 92

Dashboards == {"getCandidateDashboard", "getRequesterDashboard", "getAdminDashboard"}

\* this step is a statement of a dashboard call of p
DashboardStep(p) ==
    /\ calls'[p] # calls[p]
    /\ calls[p].in.op \in Dashboards \/ calls'[p].in.op \in Dashboards

\* C20: getCandidateDashboard, getRequesterDashboard and getAdminDashboard
\* are pure reads: in every reachable state and for every argument each of
\* them leaves every table unchanged, at every statement.
C20_DashboardsPure ==
    [][\A p \in Procs : DashboardStep(p) => UNCHANGED tables]_vars

\* the candidate's dashboard was read with a shortlisted application, an
\* upcoming interview and a published job in the store
C20_Witness ==
    /\ last.op = "getCandidateDashboard" /\ last.id = 1
    /\ result.shortlistedApplications = 1 /\ result.upcomingInterviews = 1
    /\ jobs[1].status = "published"
    /\ now = MaxTime

\* C30 (as claimed): in every state reachable through the API's handlers,
\* getCandidateDashboard returns an upcomingInterviews count equal to the
\* number of entries in upcomingInterviewSchedules, both covering exactly
\* the candidate's interviews with status "scheduled" and scheduled_at >=
\* now (the clock reading of the call); an interview moved to "completed",
\* "cancelled" or "rescheduled" by updateInterview is in neither.
C30_UpcomingInterviews ==
    [][\A p \in Procs :
          getCandidateDashboard_Schedules(p)
          => LET list == result'.upcomingInterviewSchedules
                 upcoming == {i \in Ids(interviews) :
                                 /\ Exists(applications, interviews[i].application_id)
                                 /\ applications[interviews[i].application_id].candidate_id
                                       = calls[p].in.id
                                 /\ interviews[i].status = "scheduled"
                                 /\ interviews[i].scheduled_at >= calls[p].at}
             IN /\ result'.upcomingInterviews = Len(list)
                /\ result'.upcomingInterviews = Cardinality(upcoming)
                /\ {list[k].id : k \in DOMAIN list} = upcoming
                /\ \A k \in DOMAIN list :
                      list[k].status \notin {"completed", "cancelled", "rescheduled"}]_vars

(***************************************************************************)
(* Properties of weekly reports                                            *)
(***************************************************************************)
\* this step is a statement of a generateWeeklyReport call of p
ReportStep(p) ==
    /\ calls'[p] # calls[p]
    /\ calls[p].in.op = "generateWeeklyReport" \/ calls'[p].in.op = "generateWeeklyReport"

C18_OneNewRow ==
    \A p \in Procs :
        /\ generateWeeklyReport_Insert(p)
           => /\ Len(reports') = Len(reports) + 1 /\ Extends(reports, reports')
              /\ last'.op = "generateWeeklyReport" /\ Ok(last')
              /\ last'.ret = Len(reports')
              /\ reports'[last'.ret].id = last'.ret
              /\ reports'[last'.ret].requester_id = calls[p].in.id
              /\ reports'[last'.ret].week_start = calls[p].x.week_start
              /\ reports'[last'.ret].week_end = calls[p].x.week_end
        /\ (ReportStep(p) /\ calls[p].pc # "generateWeeklyReport:insert")
           => UNCHANGED reports
        /\ ReportStep(p)
           => UNCHANGED <<users, jobs, cv_files, ai_parsed_data, applications,
                          interviews, notifications>>

C18_ListedOldestFirst ==
    (/\ last'.op = "getReportsByRequester" /\ getReportsByRequester(last'.id))
    => /\ {result'[i].id : i \in DOMAIN result'} =
             {r \in Ids(reports) : reports[r].requester_id = last'.id}
       /\ \A i \in DOMAIN result' : result'[i] = reports[result'[i].id]
       /\ \A i, j \in DOMAIN result' :
             i < j => /\ result'[i].id # result'[j].id
                      /\ result'[i].generated_at <= result'[j].generated_at
       /\ UNCHANGED tables

\* C18: every generateWeeklyReport call inserts exactly one new reports row
\* and changes no other table, so n calls with the same requester_id,
\* week_start and week_end leave n distinct rows; getReportsByRequester
\* returns exactly the rows of that requester in ascending generated_at
\* order.
C18_ReportPerCall ==
    [][C18_OneNewRow /\ C18_ListedOldestFirst]_vars

\* two reports of the same requester and week, generated at different
\* times, have been listed
C18_Witness ==
    /\ last.op = "getReportsByRequester" /\ Len(result) = 2
    /\ result[1].id # result[2].id
    /\ result[1].week_start = result[2].week_start
    /\ result[1].week_end = result[2].week_end
    /\ result[1].generated_at < result[2].generated_at

\* the applications to, and the interviews for, the requester's jobs
\* created in a set of times
C19_ApplicationsCreatedIn(requesterId, times) ==
    Cardinality({a \in Ids(applications) :
                    /\ Exists(jobs, applications[a].job_id)
                    /\ jobs[applications[a].job_id].created_by = requesterId
                    /\ applications[a].created_at \in times})

C19_InterviewsCreatedIn(requesterId, times) ==
    Cardinality({i \in Ids(interviews) :
                    /\ Exists(applications, interviews[i].application_id)
                    /\ LET a == applications[interviews[i].application_id]
                       IN /\ Exists(jobs, a.job_id)
                          /\ jobs[a.job_id].created_by = requesterId
                    /\ interviews[i].created_at \in times})

\* the times from weekStart to weekEnd, weekEnd left out of a half-open window
C19_Window(weekStart, weekEnd, halfOpen) ==
    {t \in 0..MaxTime : weekStart <= t /\ (IF halfOpen THEN t < weekEnd ELSE t <= weekEnd)}

\* the first query counts the applications and the third the interviews
\* created in the window; the report stores what they have read
C19_CountsOver(halfOpen) ==
    \A p \in Procs :
        /\ (calls[p].pc = "idle" /\ calls'[p].in.op = "generateWeeklyReport")
           => calls'[p].vals.totalApplications =
                 C19_ApplicationsCreatedIn(calls'[p].in.id,
                     C19_Window(calls'[p].x.week_start, calls'[p].x.week_end, halfOpen))
        /\ (generateWeeklyReport_Query(p) /\ calls[p].row = 3)
           => calls'[p].vals.interviewsScheduled =
                 C19_InterviewsCreatedIn(calls[p].in.id,
                     C19_Window(calls[p].x.week_start, calls[p].x.week_end, halfOpen))
        /\ generateWeeklyReport_Query(p)
           => \A name \in {"totalApplications", "interviewsScheduled"} \cap DOMAIN calls[p].vals :
                 calls'[p].vals[name] = calls[p].vals[name]
        /\ generateWeeklyReport_Insert(p)
           => /\ reports'[last'.ret].report_data.totalApplications
                    = calls[p].vals.totalApplications
              /\ reports'[last'.ret].report_data.interviewsScheduled
                    = calls[p].vals.interviewsScheduled

\* C19 (as claimed): generateWeeklyReport counts over the half-open window
\* [week_start, week_end): an application (interview) created at week_start
\* is counted in totalApplications (interviewsScheduled), one created at
\* week_end is not.
C19_HalfOpenWindow ==
    [][C19_CountsOver(TRUE)]_vars

\* C19 (amended): generateWeeklyReport counts over the closed window
\* [week_start, week_end]: an application (interview) created at week_start
\* and one created at week_end are both counted in totalApplications
\* (interviewsScheduled).
C19_ClosedWindow ==
    [][C19_CountsOver(FALSE)]_vars

\* a report counts the application and the interview created at its
\* week_end, later than its week_start
C19_Witness ==
    /\ last.op = "generateWeeklyReport" /\ last.id = 2
    /\ reports[last.ret].week_start < reports[last.ret].week_end
    /\ applications[1].created_at = reports[last.ret].week_end
    /\ interviews[1].created_at = reports[last.ret].week_end
    /\ reports[last.ret].report_data.totalApplications = 1
    /\ reports[last.ret].report_data.interviewsScheduled = 1

\* C28 (as claimed): the offerAcceptanceRate stored by generateWeeklyReport
\* is always between 0 and 100 inclusive (0 and 10000 hundredths), and it is
\* greater than 0 whenever at least one application of the requester has
\* status "offer_accepted" with updated_at in the window.
C28_AcceptanceRateBounds ==
    [][\A p \in Procs :
          generateWeeklyReport_Insert(p) =>
              LET r == reports'[last'.ret]
                  accepted == {a \in Ids(applications) :
                                  /\ Exists(jobs, applications[a].job_id)
                                  /\ jobs[applications[a].job_id].created_by = calls[p].in.id
                                  /\ applications[a].status = "offer_accepted"
                                  /\ applications[a].updated_at >= r.week_start
                                  /\ applications[a].updated_at <= r.week_end}
              IN /\ r.report_data.offerAcceptanceRate >= 0
                 /\ r.report_data.offerAcceptanceRate <= 100 * 100
                 /\ accepted # {} => r.report_data.offerAcceptanceRate > 0]_vars

(***************************************************************************)
(* Properties of CV processing                                             *)
(***************************************************************************)
\* the ids of the records the calls on file f have returned
ReturnedIds(f) == {r[1] : r \in returned[f]}

C4_OneRecordPerFile ==
    \A f \in Ids(cv_files) :
        returned[f] # {} =>
            /\ Cardinality(ReturnedIds(f)) = 1
            /\ {r \in Ids(ai_parsed_data) : ai_parsed_data[r].cv_file_id = f} = ReturnedIds(f)

\* the statements of a call on a file an earlier call has returned a record
\* of: the second lookup returns that record, and no table changes
C4_SecondCallReturnsRecord ==
    \A p \in Procs :
        /\ (processCVWithAI_SelectParsed(p) /\ returned[calls[p].in.id] # {})
           => /\ last'.op = "processCVWithAI" /\ Ok(last')
              /\ last'.ret \in ReturnedIds(calls[p].in.id)
              /\ calls'[p].pc = "idle"
              /\ UNCHANGED tables
        /\ \A f \in Ids(cv_files) :
              (returned[f] # {} /\ processCVWithAI_SelectFile(p, f))
              => (calls'[p].pc = "processCVWithAI:parsed" /\ UNCHANGED tables)

\* C4: when processCVWithAI is called on an existing cv_file_id and, after
\* that call has returned, called again on the same cv_file_id, both calls
\* return a record with the same id, ai_parsed_data holds exactly one row
\* for that file, and the second call changes no table.
C4_ProcessCVIdempotent ==
    /\ []C4_OneRecordPerFile
    /\ [][C4_SecondCallReturnsRecord]_vars

\* a second call on a processed file has returned the stored record
C4_Witness ==
    /\ last.op = "processCVWithAI" /\ Ok(last)
    /\ \A p \in Procs : calls[p].pc = "idle"
    /\ returned[last.id] = {<<last.ret, "processed">>, <<last.ret, "existing">>}

C26_ReturnsCompleted ==
    (last.op = "processCVWithAI" /\ Ok(last)) => last.status = "completed"

C26_ProcessingEnds ==
    \A r \in 1..MaxParsedData :
        (Exists(ai_parsed_data, r) /\ ai_parsed_data[r].processing_status = "processing")
            ~> (Exists(ai_parsed_data, r) /\ ai_parsed_data[r].processing_status = "completed")

\* C26 (as claimed): every processCVWithAI call on an existing cv_file_id
\* that returns, returns a record whose processing_status is "completed",
\* including a call that starts while another call on the same file is
\* between inserting its "processing" row and updating it; and every row
\* inserted with status "processing" eventually has status "completed".
C26_CallsReturnCompleted ==
    []C26_ReturnsCompleted /\ C26_ProcessingEnds

\* C27 (as claimed): under every interleaving of the store reads and writes
\* of concurrent processCVWithAI calls on the same cv_file_id, the
\* ai_parsed_data table holds at most one row for that cv_file_id in every
\* reachable state.
C27_OneRowPerFile ==
    \A f \in CVFileIdInputs :
        Cardinality({r \in Ids(ai_parsed_data) : ai_parsed_data[r].cv_file_id = f}) <= 1

(***************************************************************************)
(* Updates of rows that do not exist                                       *)
(***************************************************************************)
\* the statement of an update handler that misses the row fails with a
\* not-found error
C9_MissingRowRefused ==
    \A p \in Procs :
        /\ (/\ last'.op = "updateJobStatus" /\ ~Exists(jobs, last'.id)
            /\ updateJobStatus_Select(p, last'.id, last'.status, last'.id2))
           => NotFound(last'.err)
        /\ (/\ last'.op = "updateApplicationStatus" /\ ~Exists(applications, last'.id)
            /\ updateApplicationStatus_Select(p, last'.id, last'.status, last'.notes))
           => NotFound(last'.err)
        /\ (updateInterview_Update(p) /\ ~Exists(interviews, calls[p].in.id))
           => (last'.op = "updateInterview" /\ NotFound(last'.err))
        /\ (markNotificationAsRead_Update(p) /\ ~Exists(notifications, calls[p].in.id))
           => (last'.op = "markNotificationAsRead" /\ NotFound(last'.err))
        /\ (/\ last'.op = "sendEmailNotification" /\ ~Exists(notifications, last'.id)
            /\ sendEmailNotification_Select(p, last'.id))
           => NotFound(last'.err)

\* a call of an update handler that fails has changed no table: neither the
\* statement that fails nor, in updateInterview and markNotificationAsRead,
\* the reading of the clock before it
C9_FailedCallChangesNothing ==
    \A p \in Procs :
        (/\ calls'[p] # calls[p]
         /\ \/ Failed(last') /\ last' # last
            \/ calls[p].pc = "idle"
               /\ calls'[p].in.op \in {"updateInterview", "markNotificationAsRead"})
        => UNCHANGED tables

RowsKept(old, new) ==
    /\ Len(new) >= Len(old)
    /\ \A i \in Ids(old) : new[i].id = old[i].id

\* C21: no operation of the API deletes a row: a row of any table that
\* exists in one state exists with the same id in the next, and so in every
\* later state; no operation changes an existing cv_files row or an existing
\* user's role.
C21_NoRowDeleted ==
    [][/\ RowsKept(users, users') /\ RowsKept(jobs, jobs')
       /\ RowsKept(cv_files, cv_files') /\ RowsKept(ai_parsed_data, ai_parsed_data')
       /\ RowsKept(applications, applications') /\ RowsKept(interviews, interviews')
       /\ RowsKept(notifications, notifications') /\ RowsKept(reports, reports')
       /\ \A f \in Ids(cv_files) : cv_files'[f] = cv_files[f]
       /\ \A u \in Ids(users) : users'[u].role = users[u].role]_vars

\* every table holds a row, and the rows that can be updated have been
C21_Witness ==
    /\ Len(users) = 2 /\ Len(cv_files) >= 1 /\ Len(reports) = 1
    /\ Len(jobs) = 1 /\ jobs[1].status = "published"
    /\ Len(ai_parsed_data) = 1 /\ ai_parsed_data[1].processing_status = "completed"
    /\ Len(applications) = 1 /\ applications[1].status = "shortlisted"
    /\ Len(interviews) = 1 /\ interviews[1].status = "completed"
    /\ Len(notifications) = 3
    /\ notifications[1].read_at # NULL /\ notifications[1].email_sent

\* every foreign key stored in a row references an existing row
C22_ForeignKeysExist ==
    /\ \A j \in Ids(jobs) :
          /\ Exists(users, jobs[j].created_by)
          /\ jobs[j].approved_by # NULL => Exists(users, jobs[j].approved_by)
    /\ \A f \in Ids(cv_files) : Exists(users, cv_files[f].candidate_id)
    /\ \A d \in Ids(ai_parsed_data) : Exists(cv_files, ai_parsed_data[d].cv_file_id)
    /\ \A a \in Ids(applications) :
          /\ Exists(jobs, applications[a].job_id)
          /\ Exists(users, applications[a].candidate_id)
          /\ Exists(cv_files, applications[a].cv_file_id)
    /\ \A i \in Ids(interviews) :
          /\ Exists(applications, interviews[i].application_id)
          /\ Exists(users, interviews[i].interviewer_id)
    /\ \A n \in Ids(notifications) : Exists(users, notifications[n].user_id)
    /\ \A r \in Ids(reports) : Exists(users, reports[r].requester_id)

\* C22 (as claimed): every create handler validates the foreign keys it is
\* given and fails with not-found when one references no existing row (here:
\* createJob and its created_by), so in every reachable state each stored
\* foreign key, in particular jobs.created_by and jobs.approved_by,
\* references an existing user.
C22_ForeignKeysValidated ==
    /\ []C22_ForeignKeysExist
    /\ [][(/\ last'.op = "createJob" /\ ~Exists(users, last'.id2)
           /\ createJob(last'.id2))
          => (NotFound(last'.err) /\ UNCHANGED tables)]_vars

(***************************************************************************)
(* Properties of user accounts                                             *)
(***************************************************************************)
C23_EmailsUnique ==
    \A u, v \in Ids(users) : u # v => users[u].email # users[v].email

\* C23: createUser fails with a uniqueness violation, inserting no row, when
\* a user with the same email already exists; in every reachable state no
\* two users have the same email.
C23_CreateUserUnique ==
    /\ []C23_EmailsUnique
    /\ [][(/\ last'.op = "createUser"
           /\ \E u \in Ids(users) : users[u].email = last'.notes
           /\ createUser(last'.notes, last'.status))
          => (last'.err = "unique_violation" /\ UNCHANGED tables)]_vars

\* an account with the e-mail address of another user, in another role, has
\* been refused
C23_Witness ==
    /\ last.op = "createUser" /\ last.err = "unique_violation"
    /\ Len(users) = 2
    /\ \E u \in Ids(users) : users[u].email = last.notes /\ users[u].role # last.status

(***************************************************************************)
(* Properties of the ids the create handlers return                        *)
(***************************************************************************)
\* the ids of the rows of a table
RowIds(table) == {table[i].id : i \in Ids(table)}

\* this step is the statement of a create call that returns a row of table
\* (new is the table after the step); the call is recorded in last'
C25_Created(table, new) ==
    /\ Ok(last')
    /\ \/ last'.op = "createUser" /\ table = users /\ new = users'
          /\ createUser(last'.notes, last'.status)
       \/ last'.op = "createJob" /\ table = jobs /\ new = jobs'
          /\ createJob(last'.id2)
       \/ last'.op = "uploadCV" /\ table = cv_files /\ new = cv_files'
          /\ \E p \in Procs : uploadCV_Insert(p)
       \/ last'.op = "createApplication" /\ table = applications /\ new = applications'
          /\ \E p \in Procs : createApplication_Insert(p)
       \/ last'.op = "scheduleInterview" /\ table = interviews /\ new = interviews'
          /\ ScheduleInterviewStep(last'.id, last'.id2)
       \/ last'.op = "createNotification" /\ table = notifications /\ new = notifications'
          /\ \E p \in Procs : createNotification_Insert(p)
       \/ last'.op = "generateWeeklyReport" /\ table = reports /\ new = reports'
          /\ \E p \in Procs : generateWeeklyReport_Insert(p)

\* the row returned is the one row added, and its id is the id of no row
\* the table held: the rows earlier calls returned are among those
C25_FreshId(table, new) ==
    /\ Len(new) = Len(table) + 1
    /\ new[Len(new)].id = last'.ret
    /\ last'.ret \notin RowIds(table)

\* C25: every create handler (createUser, createJob, uploadCV,
\* createApplication, scheduleInterview, createNotification,
\* generateWeeklyReport) returns a row whose id differs from the id of every
\* row of the same entity returned by an earlier create call.
C25_DistinctIds ==
    /\ [](\A t \in {users, jobs, cv_files, applications, interviews, notifications, reports} :
            Cardinality(RowIds(t)) = Len(t))
    /\ [][\A t \in {<<users, users'>>, <<jobs, jobs'>>, <<cv_files, cv_files'>>,
                     <<applications, applications'>>, <<interviews, interviews'>>,
                     <<notifications, notifications'>>, <<reports, reports'>>} :
             C25_Created(t[1], t[2]) => C25_FreshId(t[1], t[2])]_vars

\* every create handler has returned two rows
C25_Witness ==
    /\ Len(users) = 2 /\ Len(jobs) = 2 /\ Len(cv_files) = 2 /\ Len(applications) = 2
    /\ Len(interviews) = 2 /\ Len(notifications) >= 2 /\ Len(reports) = 2
    /\ last.op = "createJob" /\ last.ret = 2

====
